---- MODULE Spec2Model ----
(***************************************************************************)
(* Verification model of the OBD-II scanner repository:                    *)
(*   - the ELM327 adapter channel (src/obd/elm/elm327.py),                 *)
(*   - the OBDScanner orchestrator (src/obd/scanner.py, src/obd/obd2/).    *)
(* Strings are TLA+ strings; the text functions work on their characters   *)
(* as the Python code works on str.                                        *)
(***************************************************************************)
EXTENDS Integers, Sequences, FiniteSets, TLC

VARIABLES
    \* ---- ELM327 object (src/obd/elm/elm327.py) ----
    connection,        \* ELM327.connection: "None" or "Open" (a serial.Serial that is open)
    elm_is_connected,  \* ELM327._is_connected
    port,              \* ELM327.port: "None" or a port name
    \* ---- one send_raw_lines call, step by step (channel specification) ----
    pc,                \* "idle", "loop" / "sleep" (the while True loop), "decode", "except"
    cur,               \* the running call: [command, timeout, reason, fault]
    clock,             \* time.monotonic() - start, in ticks of 0.25 s
    last_rx,           \* last_rx - start, in ticks
    buf,               \* the bytearray buf: sequence of bytes [ch, old]
    inbuf,             \* the serial input buffer (what in_waiting/read see)
    wire,              \* bytes the adapter has sent that have not reached inbuf yet
    result,            \* outcome of the last finished ELM327 call
    dde_pending,       \* send_raw_lines raised DeviceDisconnectedError and connect() was not called since
    \* ---- OBDScanner object (src/obd/scanner.py) ----
    connected,         \* OBDScanner._connected
    call,              \* the running scanner call and its position
    sent,              \* commands written to the adapter by the current/last scanner call
    outcome,           \* how the last scanner call ended
    \* ---- send_obd text mapping (pure-function specification) ----
    obd_in,            \* what send_raw_lines gave send_obd: lines or an exception
    obd_out,           \* the string send_obd returned ("-" before the call)
    \* ---- negotiate_protocol called on the ELM327 (src/obd/elm/protocol.py) ----
    neg,               \* position, commands and result of the negotiate_protocol call
    adapter_protocol,  \* protocol number the adapter has selected (set by ATSP<p>)
    \* ---- UdsClient object (src/obd/uds/client.py) ----
    uds,               \* the client: _auto_configure, _configured, calls made on its transport
    uds_call,          \* the last UdsClient method call: request, response, how it ended
    \* ---- read_dtcs on given adapter answers (pure-function specification) ----
    dtc_in,            \* the lines send_obd_lines gives for 03, 07 and 0A
    dtc_out,           \* what read_dtcs returned or raised
    \* ---- clear_dtcs on a given adapter answer (pure-function specification) ----
    clr_in,            \* what send_raw_lines does for the 04 command
    clr_out,           \* what clear_dtcs returned or raised, and the commands it sent
    \* ---- read_pid on a given adapter answer (pure-function specification) ----
    pid_in,            \* the pid argument and the lines send_obd_lines gives
    pid_out,           \* the SensorReading read_pid returned, or None
    \* ---- response normalizer (src/obd/obd_parse.py, pure-function specification) ----
    norm_in,           \* response lines, headers_on, expected_prefix, prefer_ecus
    norm_out,          \* the frames, the merged payload per ECU and what was found
    \* ---- DTC codec (src/obd/dtc, pure-function specification) ----
    dec_in,            \* the string given to decode_dtc_bytes / parse_dtc_response, and the mode
    dec_out,           \* what the two functions returned
    \* ---- readiness decoding (pure-function specification) ----
    rdy_in,            \* the bytes A, B, C, D of the answer to 0101
    rdy_out,           \* the monitors read_readiness returned
    \* ---- VIN text of get_vehicle_info (pure-function specification) ----
    vin_in,            \* the lines send_obd_lines gives for 0902
    vin_out,           \* info["vin"] and info["vin_raw"]
    \* ---- the multi-port connect loops (scanner.py auto_connect, app/actions/connection.py) ----
    ac,                \* ports found, position in the loop, serial connections open, how it ended
    \* ---- action_live_monitor (src/app/actions/monitoring.py) ----
    mon,               \* position in the function, logger calls made, how it ended
    \* ---- two callers of send_raw_lines on one ELM327 ----
    cc,                \* the shared serial buffers and each caller's position, buf and lines
    \* ---- PaywallClient.sync_pending (src/paywall/client.py) ----
    pw                 \* the saved pending list, the loop position, what was submitted

vars == <<connection, elm_is_connected, port, pc, cur, clock, last_rx, buf, inbuf, wire,
          result, dde_pending, connected, call, sent, outcome, obd_in, obd_out,
          neg, adapter_protocol, uds, uds_call, dtc_in, dtc_out,
          clr_in, clr_out, pid_in, pid_out, norm_in, norm_out, dec_in, dec_out,
          rdy_in, rdy_out, vin_in, vin_out, ac, mon, cc, pw>>

elmVars  == <<connection, elm_is_connected, port>>
chanVars == <<pc, cur, clock, last_rx, buf, inbuf, wire, result, dde_pending>>
scanVars == <<connected, call, sent, outcome>>
obdVars  == <<obd_in, obd_out>>
negVars  == <<neg, adapter_protocol>>
udsVars  == <<uds, uds_call>>
dtcVars  == <<dtc_in, dtc_out>>
clrVars  == <<clr_in, clr_out>>
pidVars  == <<pid_in, pid_out>>
normVars == <<norm_in, norm_out>>
decVars  == <<dec_in, dec_out>>
rdyVars  == <<rdy_in, rdy_out>>
vinVars  == <<vin_in, vin_out>>
acVars   == <<ac>>
monVars  == <<mon>>
ccVars   == <<cc>>
pwVars   == <<pw>>

\* the variables of the specifications that follow the first three
extVars  == <<negVars, udsVars, dtcVars, clrVars, pidVars, normVars, decVars, rdyVars,
             vinVars, acVars, monVars, ccVars, pwVars>>
\* the groups that come after the one of each of these specifications
monRest  == <<ccVars, pwVars>>
acRest   == <<monVars, monRest>>
vinRest  == <<acVars, acRest>>
rdyRest  == <<vinVars, vinRest>>
decRest  == <<rdyVars, rdyRest>>
normRest == <<decVars, decRest>>
pidRest  == <<normVars, normRest>>
clrRest  == <<pidVars, pidRest>>
dtcRest  == <<clrVars, clrRest>>
udsRest  == <<dtcVars, dtcRest>>
negRest  == <<udsVars, udsRest>>

-----------------------------------------------------------------------------
(* Python str operations on character sequences *)

\* the element of a one-element set: Only({F(v) : v \in {e}}) is F(e) with e
\* evaluated once
Only(S) == CHOOSE x \in S : TRUE

\* "".join(cs) for a sequence of strings
RECURSIVE StrFrom(_, _)
StrFrom(cs, i) == IF i > Len(cs) THEN "" ELSE cs[i] \o StrFrom(cs, i + 1)
Str(cs) == Only({ StrFrom(v, 1) : v \in {cs} })

\* str.upper() / str.lower() on one character
UpperCh(c) ==
    CASE c = "a" -> "A" [] c = "b" -> "B" [] c = "c" -> "C" [] c = "d" -> "D"
      [] c = "e" -> "E" [] c = "f" -> "F" [] c = "g" -> "G" [] c = "h" -> "H"
      [] c = "i" -> "I" [] c = "j" -> "J" [] c = "k" -> "K" [] c = "l" -> "L"
      [] c = "m" -> "M" [] c = "n" -> "N" [] c = "o" -> "O" [] c = "p" -> "P"
      [] c = "q" -> "Q" [] c = "r" -> "R" [] c = "s" -> "S" [] c = "t" -> "T"
      [] c = "u" -> "U" [] c = "v" -> "V" [] c = "w" -> "W" [] c = "x" -> "X"
      [] c = "y" -> "Y" [] c = "z" -> "Z"
      [] OTHER -> c

LowerCh(c) ==
    CASE c = "A" -> "a" [] c = "B" -> "b" [] c = "C" -> "c" [] c = "D" -> "d"
      [] c = "E" -> "e" [] c = "F" -> "f" [] c = "G" -> "g" [] c = "H" -> "h"
      [] c = "I" -> "i" [] c = "J" -> "j" [] c = "K" -> "k" [] c = "L" -> "l"
      [] c = "M" -> "m" [] c = "N" -> "n" [] c = "O" -> "o" [] c = "P" -> "p"
      [] c = "Q" -> "q" [] c = "R" -> "r" [] c = "S" -> "s" [] c = "T" -> "t"
      [] c = "U" -> "u" [] c = "V" -> "v" [] c = "W" -> "w" [] c = "X" -> "x"
      [] c = "Y" -> "y" [] c = "Z" -> "z"
      [] OTHER -> c

\* str.upper() / str.lower()
Upper(s) == Only({ Str([i \in 1..Len(v) |-> UpperCh(SubSeq(v, i, i))]) : v \in {s} })
Lower(s) == Only({ Str([i \in 1..Len(v) |-> LowerCh(SubSeq(v, i, i))]) : v \in {s} })

\* Python's  needle in hay  for two strings
Contains(hay, needle) ==
    \E h \in {hay} :
        \E i \in 1..(Len(h) - Len(needle) + 1) : SubSeq(h, i, i + Len(needle) - 1) = needle

\* " ".join(lines)
RECURSIVE JoinSpace(_)
JoinSpace(lines) ==
    Only({ IF ls = <<>> THEN ""
           ELSE IF Len(ls) = 1 THEN ls[1]
           ELSE ls[1] \o " " \o JoinSpace(Tail(ls)) : ls \in {lines} })

HexDigits == {"0","1","2","3","4","5","6","7","8","9","A","B","C","D","E","F"}

\* "".join(ch for ch in s if ch in "0123456789ABCDEF")
HexOnly(s) ==
    Only({ Str([i \in 1..Len(v) |-> IF SubSeq(v, i, i) \in HexDigits THEN SubSeq(v, i, i) ELSE ""]) :
           v \in {s} })

-----------------------------------------------------------------------------
(* Transport faults and their classification by send_raw_lines *)

\* Python exception classes a serial write/read can raise: OSError and
\* serial.SerialException are caught by the first handler, anything else
\* by the second.
FaultClasses == {"OSError", "SerialException", "Exception"}

\* str(e) of the faults the environment may raise
FaultMessages == {"[Errno 6] Device not configured",
                  "Device Disconnected",
                  "[Errno 5] Input/output error",
                  "disconnect requested"}

Faults == [cls : FaultClasses, msg : FaultMessages]

IsOsFault(f) == f.cls \in {"OSError", "SerialException"}

\* error_str = str(e).lower(); the two substrings tested at elm327.py:161
HasDisconnectSignature_NoLower(msg) ==
    Contains(msg, "device not configured") \/ Contains(msg, "disconnected")

HasDisconnectSignature(msg) ==
    \E error_str \in {Lower(msg)} :
        Contains(error_str, "device not configured") \/ Contains(error_str, "disconnected")

\* The exception that leaves send_raw_lines for a fault raised inside its try block
RaisedFor(f) ==
    IF IsOsFault(f)
    THEN IF HasDisconnectSignature(f.msg) THEN "DeviceDisconnectedError" ELSE "CommunicationError"
    ELSE "CommunicationError"

\* ELM327._is_connected after that fault: only the OSError/SerialException handler clears it
IsConnectedAfterFault(f, before) == IF IsOsFault(f) THEN FALSE ELSE before

-----------------------------------------------------------------------------
(* ELM327.send_obd: mapping of the send_raw_lines outcome to a result string *)

\* OBDScanner.ERROR_RESPONSES
ERROR_RESPONSES == {"NO DATA", "ERROR", "NO CONNECT", "INVALID", "DISCONNECTED"}

\* the text part of send_obd (elm327.py:178-189)
SendObdText_ErrorBeforeNoData(resp_lines) ==
    Only({ IF Contains(up_joined, "ERROR") THEN "ERROR"
           ELSE IF Contains(up_joined, "NO DATA") THEN "NO DATA"
           ELSE IF Contains(up_joined, "UNABLE TO CONNECT") THEN "NO CONNECT"
           ELSE IF Contains(up_joined, "?") THEN "INVALID"
           ELSE HexOnly(up_joined) : up_joined \in {Upper(JoinSpace(resp_lines))} })

SendObdText(resp_lines) ==
    Only({ IF Contains(up_joined, "NO DATA") THEN "NO DATA"
           ELSE IF Contains(up_joined, "UNABLE TO CONNECT") THEN "NO CONNECT"
           ELSE IF Contains(up_joined, "ERROR") THEN "ERROR"
           ELSE IF Contains(up_joined, "?") THEN "INVALID"
           ELSE HexOnly(up_joined) : up_joined \in {Upper(JoinSpace(resp_lines))} })

\* send_obd for an outcome r of send_raw_lines:
\*   [type |-> "lines", lines |-> ...] or [type |-> "raise", exc |-> ...]
SendObdResult(r) ==
    IF r.type = "raise"
    THEN IF r.exc = "DeviceDisconnectedError" THEN "DISCONNECTED" ELSE "ERROR"
    ELSE SendObdText(r.lines)

\* ELM327.test_vehicle_connection on the string send_obd("0100") returned
TestVehicleConnection_NoCanary(response) ==
    response \notin {"DISCONNECTED", "ERROR", "NO CONNECT"}

TestVehicleConnection(response) ==
    IF response \in {"DISCONNECTED", "ERROR", "NO CONNECT"} THEN FALSE
    ELSE Contains(response, "4100")

-----------------------------------------------------------------------------
(* Specification SpecObd: send_obd applied to every outcome of send_raw_lines *)

\* response lines an adapter can produce (already stripped, never empty)
ObdLineMenu == {"NO DATA", "UNABLE TO CONNECT", "CAN ERROR", "?", "no data",
                "41 00 BE 3F A8 13", "7E8 06 41 00 BE", "SEARCHING...", "DEAD"}

MaxObdLines == 2

ObdLineLists == UNION {[1..n -> ObdLineMenu] : n \in 0..MaxObdLines}

\* what happens inside send_raw_lines: it returns lines, a fault is raised in
\* the try block, or _check_connection finds no open connection
ObdInputs == [type : {"lines"}, lines : ObdLineLists]
             \cup [type : {"fault"}, fault : Faults]
             \cup {[type |-> "closed"]}

\* outcome of send_raw_lines for such an input
RawOutcome(in) ==
    CASE in.type = "lines"  -> [type |-> "lines", lines |-> in.lines]
      [] in.type = "fault"  -> [type |-> "raise", exc |-> RaisedFor(in.fault)]
      [] in.type = "closed" -> [type |-> "raise", exc |-> "DeviceDisconnectedError"]

\* the parts of the state a specification does not use stay at these values
NoChan == /\ pc = "idle" /\ cur = [command |-> ""]
          /\ clock = 0 /\ last_rx = 0 /\ buf = <<>> /\ inbuf = <<>> /\ wire = <<>>
          /\ result = [kind |-> "none"] /\ dde_pending = FALSE
NoElm  == connection = "None" /\ elm_is_connected = FALSE /\ port = "None"
NoScan == /\ connected = FALSE /\ call = [op |-> "idle", step |-> "done"] /\ sent = <<>>
          /\ outcome = "none"
NoObd  == obd_in = [type |-> "closed"] /\ obd_out = "-"
NoNeg  == neg = [step |-> "idle"] /\ adapter_protocol = "0"
NoUds  == uds = [state |-> "none"] /\ uds_call = [op |-> "none"]
NoDtc  == dtc_in = <<>> /\ dtc_out = [done |-> FALSE]
NoClr  == clr_in = [type |-> "closed"] /\ clr_out = [done |-> FALSE]
NoPid  == pid_in = [pid |-> "", lines |-> <<>>, headers_on |-> TRUE] /\ pid_out = [done |-> FALSE]
NoNorm == norm_in = [lines |-> <<>>] /\ norm_out = [done |-> FALSE]
NoDec  == dec_in = [s |-> "", mode |-> "03"] /\ dec_out = [done |-> FALSE]
NoRdy  == rdy_in = <<>> /\ rdy_out = [done |-> FALSE]
NoVin  == vin_in = <<>> /\ vin_out = [done |-> FALSE]
NoAc   == ac = [step |-> "none"]
NoMon  == mon = [pc |-> "none"]
NoCc   == cc = [mode |-> "none"]
NoPw   == pw = [step |-> "none"]
NoMonRest  == NoCc /\ NoPw
NoAcRest   == NoMon /\ NoMonRest
NoVinRest  == NoAc /\ NoAcRest
NoRdyRest  == NoVin /\ NoVinRest
NoDecRest  == NoRdy /\ NoRdyRest
NoNormRest == NoDec /\ NoDecRest
NoPidRest  == NoNorm /\ NoNormRest
NoClrRest == NoPid /\ NoPidRest
NoDtcRest == NoClr /\ NoClrRest
NoUdsRest == NoDtc /\ NoDtcRest
NoNegRest == NoUds /\ NoUdsRest
NoExt  == NoNeg /\ NoNegRest

ObdInit == /\ obd_in \in ObdInputs /\ obd_out = "-"
           /\ NoChan /\ NoElm /\ NoScan /\ NoExt

\* response = self.send_obd(command)
ObdCall == /\ obd_out = "-"
           /\ obd_out' = SendObdResult(RawOutcome(obd_in))
           /\ UNCHANGED <<obd_in, elmVars, chanVars, scanVars, extVars>>

ObdNext == ObdCall

SpecObd == ObdInit /\ [][ObdNext]_vars

\* C9: send_obd never raises on a channel failure (a disconnection gives
\* "DISCONNECTED", any other communication error "ERROR"); otherwise the joined
\* uppercase response is tested for NO DATA, UNABLE TO CONNECT, ERROR and "?" in
\* that order and the first match decides; only when none matches is the result
\* the hex digits of the response, which is never one of the sentinel strings.
C9_SendObdSentinels ==
    obd_out # "-" =>
        CASE obd_in.type = "closed" -> obd_out = "DISCONNECTED"
          [] obd_in.type = "fault" ->
                IF IsOsFault(obd_in.fault) /\ HasDisconnectSignature(obd_in.fault.msg)
                THEN obd_out = "DISCONNECTED" ELSE obd_out = "ERROR"
          [] obd_in.type = "lines" ->
                LET up == Upper(JoinSpace(obd_in.lines))
                    m1 == Contains(up, "NO DATA")
                    m2 == Contains(up, "UNABLE TO CONNECT")
                    m3 == Contains(up, "ERROR")
                    m4 == Contains(up, "?")
                IN  /\ m1 => obd_out = "NO DATA"
                    /\ (~m1 /\ m2) => obd_out = "NO CONNECT"
                    /\ (~m1 /\ ~m2 /\ m3) => obd_out = "ERROR"
                    /\ (~m1 /\ ~m2 /\ ~m3 /\ m4) => obd_out = "INVALID"
                    /\ (~m1 /\ ~m2 /\ ~m3 /\ ~m4) =>
                          /\ obd_out \notin ERROR_RESPONSES
                          /\ \A i \in 1..Len(obd_out) : SubSeq(obd_out, i, i) \in HexDigits
                          /\ obd_out = HexOnly(up)

\* a response holding both an ERROR banner and NO DATA was mapped to NO DATA
C9_Witness ==
    /\ obd_in.type = "lines" /\ obd_in.lines = <<"CAN ERROR", "NO DATA">> /\ obd_out = "NO DATA"

-----------------------------------------------------------------------------
(* ELM327.connect and ELM327.close, shared by the channel and scanner models *)

\* results of initialize_elm(self) (src/obd/elm/init.py is not part of the sources)
InitializeElmResults == BOOLEAN

\* port chosen by find_ports()[0] when none was configured
FirstPort == "ttyUSB0"

\* ELM327.connect(): ports_found, open_ok and init_ok are what find_ports(),
\* serial.Serial(...) and initialize_elm(self) do.  Result: the new ELM327
\* fields and the exception raised ("none" when connect() returns True).
ElmConnect(ports_found, open_ok, init_ok) ==
    IF port = "None" /\ ~ports_found
    THEN [exc |-> "ConnectionError", port |-> port,
          connection |-> connection, is_connected |-> elm_is_connected]
    ELSE LET p == IF port = "None" THEN FirstPort ELSE port
         IN  IF ~open_ok
             THEN [exc |-> "ConnectionError", port |-> p,
                   connection |-> connection, is_connected |-> FALSE]
             ELSE IF ~init_ok
             THEN [exc |-> "ConnectionError", port |-> p,
                   connection |-> "Open", is_connected |-> FALSE]
             ELSE [exc |-> "none", port |-> p,
                   connection |-> "Open", is_connected |-> TRUE]

\* ELM327.is_connected property: serial.Serial.is_open is True for a
\* connection object that exists (close() drops the object)
ElmIsConnected(is_conn, conn) == is_conn /\ conn = "Open"

-----------------------------------------------------------------------------
(* Specification SpecChan: one ELM327 instance and its serial line.          *)
(* Time is counted in ticks of 0.25 s.                                       *)

\* faults the serial line raises in this specification: a disconnect signature in
\* lower and in mixed case, an I/O error, and a non-OS exception with the signature
ChanFaults == {[cls |-> "OSError", msg |-> "[Errno 6] Device not configured"],
               [cls |-> "SerialException", msg |-> "Device Disconnected"],
               [cls |-> "OSError", msg |-> "[Errno 5] Input/output error"],
               [cls |-> "Exception", msg |-> "Device Disconnected"]}

MinWaitTicks == 3      \* min_wait_before_silence_break = 0.75
SilenceTicks == 1      \* silence_timeout = 0.25

\* timeouts the callers pass: 1.0 (ATSP, ATDPN) and max(self.timeout, 2.0) >= 2.0
Timeouts == {4}

ChanCommands == {"0100"}

\* what the adapter sends in answer to one command; an answer without ">"
\* is a firmware that stays silent or is still working when the loop gives up
AnswerMenu == {"41\r>", "4 \r1", ">", ""}

\* bound: bytes of earlier answers still on the line or unread when a command is sent
MaxStale == 2

Tagged(s, old) == [i \in 1..Len(s) |-> [ch |-> SubSeq(s, i, i), old |-> old]]
Aged(bytes)    == [i \in 1..Len(bytes) |-> [ch |-> bytes[i].ch, old |-> TRUE]]
Text(bytes)    == Str([i \in 1..Len(bytes) |-> bytes[i].ch])

HasPrompt(bytes) == \E i \in 1..Len(bytes) : bytes[i].ch = ">"

\* str.strip() on a sequence of bytes (whitespace of the alphabet: space)
RECURSIVE LStrip(_)
LStrip(bs) == IF bs # <<>> /\ Head(bs).ch = " " THEN LStrip(Tail(bs)) ELSE bs
RECURSIVE RStrip(_)
RStrip(bs) == IF bs # <<>> /\ bs[Len(bs)].ch = " " THEN RStrip(SubSeq(bs, 1, Len(bs) - 1)) ELSE bs
Strip(bs)  == RStrip(LStrip(bs))

\* text.split("\n") after replace("\r", "\n"): pieces between separators
RECURSIVE SplitLines(_, _)
SplitLines(bs, line) ==
    IF bs = <<>> THEN <<line>>
    ELSE IF Head(bs).ch \in {"\r", "\n"} THEN <<line>> \o SplitLines(Tail(bs), <<>>)
    ELSE SplitLines(Tail(bs), Append(line, Head(bs)))

\* elm327.py:149-151: drop ">", split into lines, strip, keep the non-empty ones
LineBytes(bytes) ==
    Only({ SelectSeq([i \in 1..Len(pieces) |-> Strip(pieces[i])], LAMBDA l : l # <<>>) :
           pieces \in {SplitLines(SelectSeq(bytes, LAMBDA b : b.ch # ">"), <<>>)} })

Lines(bytes) == Only({ [i \in 1..Len(lb) |-> Text(lb[i])] : lb \in {LineBytes(bytes)} })

\* the returned lines hold a byte the adapter sent in answer to an earlier command
HasStale(bytes) ==
    \E lb \in {LineBytes(bytes)} :
        \E i \in 1..Len(lb) : \E j \in 1..Len(lb[i]) : lb[i][j].old

\* outcome of one call: what send_raw_lines did (kind, exc, lines) and, in obd,
\* the string send_obd returns for that outcome when it was the caller
NoResult == [kind |-> "none", exc |-> "none", lines |-> <<>>, obd |-> "-", reason |-> "none",
             wrote |-> "", stale |-> FALSE, after_dde |-> FALSE, cls |-> "none", msg |-> ""]

IdleCall == [command |-> "", timeout |-> 0, reason |-> "none", fault |-> [cls |-> "none", msg |-> ""]]

ChanInit == /\ connection = "None" /\ elm_is_connected = FALSE /\ port \in {"None", FirstPort}
            /\ pc = "idle" /\ cur = IdleCall
            /\ clock = 0 /\ last_rx = 0 /\ buf = <<>> /\ inbuf = <<>> /\ wire = <<>>
            /\ result = NoResult /\ dde_pending = FALSE
            /\ NoScan /\ NoObd /\ NoExt

\* send_raw_lines raises exc (elm327.py:90, 158-165)
Raised(exc, wrote, after_dde, f) ==
    Only({ [NoResult EXCEPT !.kind = "raise",
                            !.exc = e,
                            !.obd = SendObdResult([type |-> "raise", exc |-> e]),
                            !.wrote = wrote, !.after_dde = after_dde,
                            !.cls = f.cls, !.msg = f.msg] : e \in {exc} })

\* send_raw_lines returns (elm327.py:149-156)
Returned(bytes, reason, wrote, after_dde) ==
    Only({ [NoResult EXCEPT !.kind = "return",
                            !.lines = lines,
                            !.obd = SendObdResult([type |-> "lines", lines |-> lines]),
                            !.reason = reason,
                            !.wrote = wrote, !.after_dde = after_dde,
                            !.stale = HasStale(bytes)] : lines \in {Lines(bytes)} })

\* ELM327.connect() called on the instance
ChanConnect ==
    /\ pc = "idle"
    /\ \E ports_found \in BOOLEAN, open_ok \in BOOLEAN, init_ok \in InitializeElmResults :
          LET r == ElmConnect(ports_found, open_ok, init_ok)
          IN  /\ port' = r.port
              /\ connection' = r.connection
              /\ elm_is_connected' = r.is_connected
    /\ dde_pending' = FALSE
    /\ UNCHANGED <<pc, cur, clock, last_rx, buf, inbuf, wire, result, scanVars, obdVars, extVars>>

\* ELM327.close()
ChanClose ==
    /\ pc = "idle"
    /\ connection # "None" \/ elm_is_connected
    /\ elm_is_connected' = FALSE
    /\ connection' = "None"
    /\ UNCHANGED <<port, chanVars, scanVars, obdVars, extVars>>

\* send_raw_lines (called directly or by send_obd) up to the start of the read
\* loop (elm327.py:111-130): _check_connection, buffer reset (a failing reset is
\* swallowed), write + flush
ChanSend ==
    /\ pc = "idle"
    /\ \E command \in ChanCommands, timeout \in Timeouts :
          IF connection = "None"
          THEN \* _check_connection raises, outside the try block
               /\ elm_is_connected' = FALSE
               /\ result' = Raised("DeviceDisconnectedError", "", dde_pending, IdleCall.fault)
               /\ dde_pending' = TRUE
               /\ UNCHANGED <<pc, cur, clock, last_rx, buf, inbuf, wire>>
          ELSE \E reset_ok \in BOOLEAN :
               /\ Len(wire) + (IF reset_ok THEN 0 ELSE Len(inbuf)) <= MaxStale
               /\ result' = [NoResult EXCEPT !.wrote = command \o "\r",
                                            !.after_dde = dde_pending]
               /\ buf' = <<>>
               /\ clock' = 0
               /\ last_rx' = 0
               /\ \/ \* write() or flush() raises
                     \E f \in ChanFaults :
                       /\ inbuf' = IF reset_ok THEN <<>> ELSE inbuf
                       /\ pc' = "except"
                       /\ cur' = [IdleCall EXCEPT !.command = command, !.timeout = timeout,
                                                  !.fault = f]
                       /\ UNCHANGED wire
                  \/ \* the command goes out and the adapter starts to answer
                     \E answer \in AnswerMenu :
                       /\ inbuf' = IF reset_ok THEN <<>> ELSE Aged(inbuf)
                       /\ wire' = Aged(wire) \o Tagged(answer, FALSE)
                       /\ pc' = "loop"
                       /\ cur' = [IdleCall EXCEPT !.command = command, !.timeout = timeout]
               /\ UNCHANGED <<elm_is_connected, dde_pending>>
    /\ UNCHANGED <<connection, port, scanVars, obdVars, extVars>>

\* the loop's exit conditions (elm327.py:134 and :145)
TimedOut_Never(now, timeout) == FALSE
TimedOut(now, timeout) == now > timeout

SilenceBreak_NoMinWait(now, lastrx) == (now - lastrx) > SilenceTicks
SilenceBreak(now, lastrx) == now >= MinWaitTicks /\ (now - lastrx) > SilenceTicks

\* one pass of the while True loop (elm327.py:132-147)
ChanLoop ==
    /\ pc = "loop"
    /\ IF TimedOut(clock, cur.timeout)
       THEN /\ pc' = "decode"
            /\ cur' = [cur EXCEPT !.reason = "timeout"]
            /\ UNCHANGED <<buf, inbuf, last_rx>>
       ELSE \/ \* in_waiting or read raises
               \E f \in ChanFaults :
                 /\ pc' = "except"
                 /\ cur' = [cur EXCEPT !.fault = f]
                 /\ UNCHANGED <<buf, inbuf, last_rx>>
            \/ /\ inbuf # <<>>
               /\ buf' = buf \o inbuf
               /\ inbuf' = <<>>
               /\ last_rx' = clock
               /\ IF HasPrompt(buf \o inbuf)
                  THEN pc' = "decode" /\ cur' = [cur EXCEPT !.reason = "prompt"]
                  ELSE UNCHANGED <<pc, cur>>
            \/ /\ inbuf = <<>>
               /\ IF SilenceBreak(clock, last_rx)
                  THEN pc' = "decode" /\ cur' = [cur EXCEPT !.reason = "silence"]
                  ELSE pc' = "sleep" /\ UNCHANGED cur
               /\ UNCHANGED <<buf, inbuf, last_rx>>
    /\ UNCHANGED <<elmVars, clock, wire, result, dde_pending, scanVars, obdVars, extVars>>

\* the call is over: its locals are gone
ChanExit == pc' = "idle" /\ cur' = IdleCall /\ clock' = 0 /\ last_rx' = 0 /\ buf' = <<>>

\* after the loop (elm327.py:149-156): decode, split into lines, return
ChanReturn ==
    /\ pc = "decode"
    /\ result' = Returned(buf, cur.reason, result.wrote, result.after_dde)
    /\ ChanExit
    /\ UNCHANGED <<elmVars, inbuf, wire, dde_pending, scanVars, obdVars, extVars>>

\* the exception handlers (elm327.py:158-165)
ChanExcept ==
    /\ pc = "except"
    /\ elm_is_connected' = IsConnectedAfterFault(cur.fault, elm_is_connected)
    /\ result' = Raised(RaisedFor(cur.fault), result.wrote, result.after_dde, cur.fault)
    /\ dde_pending' = (dde_pending \/ result'.exc = "DeviceDisconnectedError")
    /\ ChanExit
    /\ UNCHANGED <<connection, port, inbuf, wire, scanVars, obdVars, extVars>>

\* time.sleep(0.01) returns
ChanWake ==
    /\ pc = "sleep"
    /\ pc' = "loop"
    /\ UNCHANGED <<elmVars, cur, clock, last_rx, buf, inbuf, wire, result, dde_pending,
                   scanVars, obdVars, extVars>>

\* time.monotonic() advances by one tick while the loop runs
ChanTick ==
    /\ pc \in {"loop", "sleep"}
    /\ clock <= cur.timeout
    /\ clock' = clock + 1
    /\ UNCHANGED <<elmVars, pc, cur, last_rx, buf, inbuf, wire, result, dde_pending,
                   scanVars, obdVars, extVars>>

\* the next byte the adapter sent reaches the serial input buffer
ChanDeliver ==
    /\ wire # <<>>
    /\ inbuf' = Append(inbuf, Head(wire))
    /\ wire' = Tail(wire)
    /\ UNCHANGED <<elmVars, pc, cur, clock, last_rx, buf, result, dde_pending,
                   scanVars, obdVars, extVars>>

ChanNext == ChanConnect \/ ChanClose \/ ChanSend \/ ChanLoop \/ ChanReturn \/ ChanExcept
            \/ ChanWake \/ ChanTick \/ ChanDeliver

SpecChan == ChanInit /\ [][ChanNext]_vars

\* the thread inside send_raw_lines keeps running and the clock advances
FairChan == SpecChan /\ WF_vars(ChanLoop) /\ WF_vars(ChanWake) /\ WF_vars(ChanTick)
                     /\ WF_vars(ChanReturn) /\ WF_vars(ChanExcept)

\* a pass of the read loop itself (not the clock, not the adapter)
LoopStep == pc = "loop" /\ (pc' # "loop" \/ buf' # buf)

\* the loop was left by break (not by an exception)
LoopLeft == pc = "decode"

\* C5: after the command is written the read loop stops at the earlier of (a) a
\* ">" in the accumulated buffer and (b) elapsed >= min_wait_before_silence_break
\* with more than silence_timeout since the last byte; it never stops on silence
\* before min_wait_before_silence_break, and it reads nothing once a chunk with
\* ">" was received (the hard timeout of C6 is the only other way out).
C5_ReadLoopStops ==
    /\ [](pc \in {"loop", "sleep"} => ~HasPrompt(buf))
    /\ [](LoopLeft =>
            /\ cur.reason \in {"prompt", "silence", "timeout"}
            /\ cur.reason = "silence" =>
                  (clock >= MinWaitTicks /\ clock - last_rx > SilenceTicks /\ ~HasPrompt(buf))
            /\ cur.reason = "prompt" => (HasPrompt(buf) /\ last_rx = clock)
            /\ cur.reason = "timeout" => (clock > cur.timeout /\ ~HasPrompt(buf)))
    /\ [][(LoopStep /\ clock <= cur.timeout /\ pc' # "except") =>
            /\ (inbuf # <<>> /\ HasPrompt(inbuf)) => (pc' = "decode" /\ cur'.reason = "prompt")
            /\ (inbuf = <<>> /\ clock >= MinWaitTicks /\ clock - last_rx > SilenceTicks) =>
                  (pc' = "decode" /\ cur'.reason = "silence")
            /\ (inbuf # <<>> /\ ~HasPrompt(inbuf)) => pc' = "loop"
            /\ (inbuf = <<>> /\ ~(clock >= MinWaitTicks /\ clock - last_rx > SilenceTicks)) =>
                  pc' = "sleep"]_vars

\* an exchange ended on silence after some bytes without a prompt had been read
C5_Witness ==
    pc = "idle" /\ result.kind = "return" /\ result.reason = "silence" /\ result.lines # <<>>

\* C6: send_raw_lines always terminates as time advances; when neither prompt
\* nor silence ends the loop it is left once elapsed exceeds the caller's
\* timeout, and the lines accumulated so far are returned without raising.
C6_HardTimeout ==
    /\ (pc # "idle") ~> (pc = "idle")
    /\ [][(LoopStep /\ clock > cur.timeout) =>
            (pc' = "decode" /\ cur'.reason = "timeout" /\ buf' = buf)]_vars
    /\ [][(pc = "decode" /\ pc' # "decode") =>
            (pc' = "idle" /\ result'.kind = "return" /\ result'.exc = "none"
             /\ result'.reason = cur.reason /\ result'.lines = Lines(buf))]_vars

\* bytes without a prompt were still arriving when the timeout ended the loop
C6_Witness ==
    /\ pc = "idle" /\ result.kind = "return" /\ result.reason = "timeout"
    /\ result.lines = <<"4", "1">>

\* C7: after send_raw_lines raised DeviceDisconnectedError, every later
\* send_raw_lines / send_obd on the instance fails with the disconnected outcome
\* (DeviceDisconnectedError, "DISCONNECTED") and passes nothing to the serial
\* port, until connect() is called again.
C7_DisconnectedUntilConnect ==
    result.after_dde =>
        /\ result.exc = "DeviceDisconnectedError"
        /\ result.obd = "DISCONNECTED"
        /\ result.wrote = ""

\* C8: a fault during write or read that is an OSError/SerialException whose
\* message holds "device not configured" or "disconnected" in any letter case
\* leaves send_raw_lines as DeviceDisconnectedError; every other fault leaves it
\* as a CommunicationError that is not a DeviceDisconnectedError; nothing else
\* escapes.
C8_FailureTaxonomy ==
    result.kind = "raise" =>
        /\ result.exc \in {"DeviceDisconnectedError", "CommunicationError"}
        /\ result.cls # "none" =>
              (result.exc = "DeviceDisconnectedError"
                  <=> /\ result.cls \in {"OSError", "SerialException"}
                      /\ result.msg \in {"[Errno 6] Device not configured",
                                         "Device Disconnected"})

\* a SerialException with the signature in mixed case was raised by the serial port
C8_Witness ==
    /\ result.kind = "raise" /\ result.exc = "DeviceDisconnectedError"
    /\ result.cls = "SerialException" /\ result.msg = "Device Disconnected"
    /\ result.wrote # ""

\* C10: every exchange clears the serial input and output buffers before it
\* writes the command terminated by a carriage return, so the returned lines
\* never hold a byte the adapter sent in answer to an earlier command.
C10_NoStaleBytes ==
    result.kind = "return" => (result.wrote = "0100\r" /\ ~result.stale)

-----------------------------------------------------------------------------
(* Specification SpecScan: the OBDScanner orchestrator (src/obd/scanner.py). *)
(* A step is one exchange with the adapter: a whole send_raw_lines call      *)
(* whose outcome (response lines or a fault) the environment chooses.        *)

\* keys of PIDS (src/obd/pids/standard_mode01.py is not part of the sources)
KnownPids == {"04", "05", "06", "07", "0B", "0C", "0D", "0E", "0F", "11"}

\* freeze_pids (scanner.py:407)
FreezePids == <<"04", "05", "06", "07", "0B", "0C", "0D", "0E", "0F", "11">>

\* candidates of negotiate_protocol (protocol.py:33)
Candidates == <<"0", "6", "7", "8", "9">>

\* the three DTC modes read_dtcs queries, in order
DtcModes_PendingFirst == <<"07", "03", "0A">>

DtcModes == <<"03", "07", "0A">>

\* pid arguments of read_pid / read_live_data: a known PID in lower case, an unknown one
PidMenu == {"0c", "ZZ"}
MaxPids == 2
PidLists == UNION {[1..n -> PidMenu] : n \in 0..MaxPids}

\* response lines of one exchange
ScanReplies == { <<>>,
                 <<"41 00 BE 3F A8 13">>,
                 <<"7E8 06 41 00 BE 3F A8 13">>,
                 <<"NO DATA">>,
                 <<"SEARCHING...", "UNABLE TO CONNECT">>,
                 <<"DISCONNECTED">> }

ScanEnv == [type : {"lines"}, lines : ScanReplies] \cup [type : {"fault"}, fault : ChanFaults]

\* the data-returning operations of OBDScanner
DataOps == {"read_dtcs", "clear_dtcs", "read_pid", "read_live_data", "read_freeze_frame",
            "read_readiness", "get_mil_status", "get_vehicle_info"}

\* call: op and position of the running call (step = "done" when it is over),
\* and what is recorded about it: started = is_connected when it was called,
\* lost = one of its exchanges raised DeviceDisconnectedError, after_lost = the
\* call before it ended with ConnectionLostError, neg = how the negotiation of
\* connect() ended, canary = what send_obd("0100") gave test_vehicle_connection
IdleScan == [op |-> "idle", step |-> "done", k |-> 0, pids |-> <<>>, started |-> FALSE,
             lost |-> FALSE, after_lost |-> FALSE, neg |-> "none", canary |-> "-"]

ScanInit == /\ connection = "None" /\ elm_is_connected = FALSE /\ port \in {"None", FirstPort}
            /\ connected = FALSE /\ call = IdleScan /\ sent = <<>> /\ outcome = "none"
            /\ NoChan /\ NoObd /\ NoExt

\* value of the OBDScanner.is_connected property (scanner.py:151-160); reading
\* it also stores that value in _connected
IsConnected == connected /\ ElmIsConnected(elm_is_connected, connection)

Begin(op) == [IdleScan EXCEPT !.op = op, !.step = "run", !.started = IsConnected,
                              !.after_lost = (outcome = "ConnectionLostError")]

\* str.replace(" ", "")
RemoveSpaces(s) ==
    Only({ Str([i \in 1..Len(v) |-> IF SubSeq(v, i, i) = " " THEN "" ELSE SubSeq(v, i, i)]) :
           v \in {s} })

\* one whole send_raw_lines(command) call after the commands in s were written:
\* the exception it raises, the lines it returns, ELM327._is_connected afterwards
Exchange(s, command, env) ==
    IF connection = "None"
    THEN [exc |-> "DeviceDisconnectedError", lines |-> <<>>, is_conn |-> FALSE, sent |-> s]
    ELSE IF env.type = "fault"
    THEN [exc |-> RaisedFor(env.fault), lines |-> <<>>,
          is_conn |-> IsConnectedAfterFault(env.fault, elm_is_connected),
          sent |-> Append(s, command)]
    ELSE [exc |-> "none", lines |-> env.lines, is_conn |-> elm_is_connected,
          sent |-> Append(s, command)]

\* OBDScanner._obd_query_payload (scanner.py:188-195): the exception it raises
\* and the scanner/adapter fields afterwards
Query(s, command, env) ==
    IF ~IsConnected
    THEN [exc |-> "NotConnectedError", connected |-> FALSE, is_conn |-> elm_is_connected,
          sent |-> s, lost |-> FALSE]
    ELSE Only({ IF x.exc = "DeviceDisconnectedError"
                THEN [exc |-> "ConnectionLostError", connected |-> FALSE, is_conn |-> x.is_conn,
                      sent |-> x.sent, lost |-> TRUE]
                ELSE IF x.exc = "CommunicationError"
                THEN [exc |-> "ScannerError", connected |-> TRUE, is_conn |-> x.is_conn,
                      sent |-> x.sent, lost |-> FALSE]
                ELSE [exc |-> "none", connected |-> TRUE, is_conn |-> x.is_conn,
                      sent |-> x.sent, lost |-> FALSE] : x \in {Exchange(s, command, env)} })

\* the call c ends: out is "ok" for a normal return, else the exception raised
Done(c, out) == call' = [c EXCEPT !.step = "done"] /\ outcome' = out

\* _check_connected() raised at the entry of the call c
NotConnected(c) ==
    /\ connected' = FALSE
    /\ sent' = <<>>
    /\ Done(c, "NotConnectedError")
    /\ UNCHANGED <<elm_is_connected>>

\* an operation that is one _obd_query_payload call after its entry check
OneQuery(c, command) ==
    IF ~IsConnected
    THEN NotConnected(c)
    ELSE \E env \in ScanEnv :
            LET q == Query(<<>>, command, env)
            IN  /\ connected' = q.connected
                /\ elm_is_connected' = q.is_conn
                /\ sent' = q.sent
                /\ Done([c EXCEPT !.lost = q.lost], IF q.exc = "none" THEN "ok" ELSE q.exc)

\* OBDScanner.connect(): self.elm.connect() (scanner.py:103)
ScanConnect ==
    /\ call.step = "done"
    /\ \E ports_found \in BOOLEAN, open_ok \in BOOLEAN, init_ok \in InitializeElmResults :
          LET r == ElmConnect(ports_found, open_ok, init_ok)
          IN  /\ port' = r.port
              /\ connection' = r.connection
              /\ elm_is_connected' = r.is_connected
              /\ IF r.exc # "none"
                 THEN Done(Begin("connect"), "ConnectionError")
                 ELSE /\ call' = [Begin("connect") EXCEPT !.step = "neg_select", !.k = 1]
                      /\ outcome' = "none"
    /\ sent' = <<>>
    /\ UNCHANGED <<connected, chanVars, obdVars, extVars>>

\* negotiate_protocol: elm.send_raw_lines(f"ATSP{p}") (protocol.py:36); an
\* exception leaves the loop for the finally block
ScanNegSelect ==
    /\ call.op = "connect" /\ call.step = "neg_select"
    /\ \E env \in ScanEnv :
          LET x == Exchange(sent, "ATSP" \o Candidates[call.k], env)
          IN  /\ elm_is_connected' = x.is_conn
              /\ sent' = x.sent
              /\ call' = IF x.exc # "none"
                         THEN [call EXCEPT !.step = "neg_restore", !.neg = "raised"]
                         ELSE [call EXCEPT !.step = "neg_probe"]
    /\ UNCHANGED <<connection, port, connected, outcome, chanVars, obdVars, extVars>>

\* negotiate_protocol: the 0100 probe of candidate k (protocol.py:38-41)
ScanNegProbe ==
    /\ call.op = "connect" /\ call.step = "neg_probe"
    /\ \E env \in ScanEnv :
          LET x == Exchange(sent, "0100", env)
              joined == RemoveSpaces(Upper(JoinSpace(x.lines)))
          IN  /\ elm_is_connected' = x.is_conn
              /\ sent' = x.sent
              /\ call' = IF x.exc # "none"
                         THEN [call EXCEPT !.step = "neg_restore", !.neg = "raised"]
                         ELSE IF Contains(joined, "4100")
                         THEN [call EXCEPT !.step = "neg_restore", !.neg = "found"]
                         ELSE IF call.k < Len(Candidates)
                         THEN [call EXCEPT !.step = "neg_select", !.k = call.k + 1]
                         ELSE [call EXCEPT !.step = "neg_restore", !.neg = "failed"]
    /\ UNCHANGED <<connection, port, connected, outcome, chanVars, obdVars, extVars>>

\* negotiate_protocol: the finally block sends ATSP0 and swallows its exception
\* (protocol.py:42-46); connect() swallows what negotiate_protocol raises
ScanNegRestore ==
    /\ call.op = "connect" /\ call.step = "neg_restore"
    /\ \E env \in ScanEnv :
          LET x == Exchange(sent, "ATSP0", env)
          IN  /\ elm_is_connected' = x.is_conn
              /\ sent' = x.sent
    /\ call' = [call EXCEPT !.step = "canary"]
    /\ UNCHANGED <<connection, port, connected, outcome, chanVars, obdVars, extVars>>

\* connect(): test_vehicle_connection() decides (scanner.py:111-116)
ScanCanary ==
    /\ call.op = "connect" /\ call.step = "canary"
    /\ \E env \in ScanEnv :
          LET x == Exchange(sent, "0100", env)
              response == SendObdResult(IF x.exc = "none"
                                        THEN [type |-> "lines", lines |-> x.lines]
                                        ELSE [type |-> "raise", exc |-> x.exc])
          IN  /\ elm_is_connected' = x.is_conn
              /\ sent' = x.sent
              /\ IF TestVehicleConnection(response)
                 THEN connected' = TRUE  /\ Done([call EXCEPT !.canary = response], "ok")
                 ELSE connected' = FALSE /\ Done([call EXCEPT !.canary = response], "ConnectionError")
    /\ UNCHANGED <<connection, port, chanVars, obdVars, extVars>>

\* OBDScanner.disconnect() (scanner.py:143-149) with ELM327.close()
ScanDisconnect ==
    /\ call.step = "done"
    /\ connected' = FALSE
    /\ elm_is_connected' = FALSE
    /\ connection' = "None"
    /\ sent' = <<>>
    /\ Done(Begin("disconnect"), "ok")
    /\ UNCHANGED <<port, chanVars, obdVars, extVars>>

\* read_dtcs(): entry check (scanner.py:214)
ScanReadDtcs ==
    /\ call.step = "done"
    /\ IF ~IsConnected
       THEN NotConnected(Begin("read_dtcs"))
       ELSE /\ call' = [Begin("read_dtcs") EXCEPT !.step = "mode", !.k = 1]
            /\ outcome' = "none"
            /\ sent' = <<>>
            /\ UNCHANGED <<connected, elm_is_connected>>
    /\ UNCHANGED <<connection, port, chanVars, obdVars, extVars>>

\* read_dtcs(): send_obd_lines for mode 03, 07 or 0A (scanner.py:222-275)
ScanReadDtcsMode ==
    /\ call.op = "read_dtcs" /\ call.step = "mode"
    /\ \E env \in ScanEnv :
          LET x == Exchange(sent, DtcModes[call.k], env)
          IN  /\ elm_is_connected' = x.is_conn
              /\ sent' = x.sent
              /\ IF x.exc = "DeviceDisconnectedError"
                 THEN connected' = FALSE /\ Done([call EXCEPT !.lost = TRUE], "ConnectionLostError")
                 ELSE IF x.exc = "CommunicationError"
                 THEN Done(call, "ScannerError") /\ UNCHANGED connected
                 ELSE IF Contains(Upper(JoinSpace(x.lines)), "DISCONNECTED")
                 THEN connected' = FALSE /\ Done(call, "ConnectionLostError")
                 ELSE IF call.k < Len(DtcModes)
                 THEN call' = [call EXCEPT !.k = call.k + 1] /\ UNCHANGED <<connected, outcome>>
                 ELSE Done(call, "ok") /\ UNCHANGED connected
    /\ UNCHANGED <<connection, port, chanVars, obdVars, extVars>>

\* clear_dtcs() (scanner.py:279-296)
ScanClearDtcs ==
    /\ call.step = "done"
    /\ IF ~IsConnected
       THEN NotConnected(Begin("clear_dtcs"))
       ELSE \E env \in ScanEnv :
               LET x == Exchange(<<>>, "04", env)
                   response == SendObdResult(IF x.exc = "none"
                                             THEN [type |-> "lines", lines |-> x.lines]
                                             ELSE [type |-> "raise", exc |-> x.exc])
               IN  /\ elm_is_connected' = x.is_conn
                   /\ sent' = x.sent
                   /\ IF response = "DISCONNECTED"
                      THEN /\ connected' = FALSE
                           /\ Done([Begin("clear_dtcs") EXCEPT !.lost = TRUE], "ConnectionLostError")
                      ELSE Done(Begin("clear_dtcs"), "ok") /\ UNCHANGED connected
    /\ UNCHANGED <<connection, port, chanVars, obdVars, extVars>>

\* read_pid(pid) (scanner.py:302-345): a pid that is not in PIDS gives None
\* before anything is sent
ScanReadPid ==
    /\ call.step = "done"
    /\ \E pid \in PidMenu :
          LET c == [Begin("read_pid") EXCEPT !.pids = <<pid>>]
          IN  IF IsConnected /\ Upper(pid) \notin KnownPids
              THEN /\ Done(c, "ok")
                   /\ sent' = <<>>
                   /\ UNCHANGED <<connected, elm_is_connected>>
              ELSE OneQuery(c, "01" \o Upper(pid))
    /\ UNCHANGED <<connection, port, chanVars, obdVars, extVars>>

\* read_live_data(pids) (scanner.py:347-357): there is no entry check
ScanReadLiveData ==
    /\ call.step = "done"
    /\ \E pids \in PidLists :
          LET c == [Begin("read_live_data") EXCEPT !.pids = pids, !.k = 1]
          IN  IF pids = <<>>
              THEN Done(c, "ok")
              ELSE call' = [c EXCEPT !.step = "pid"] /\ outcome' = "none"
    /\ sent' = <<>>
    /\ UNCHANGED <<elmVars, connected, chanVars, obdVars, extVars>>

\* the rest of read_live_data after the pid at position k (scanner.py:358-367)
LiveDataNext(c) ==
    IF c.k < Len(c.pids)
    THEN call' = [c EXCEPT !.k = c.k + 1] /\ UNCHANGED outcome
    ELSE Done(c, "ok")

\* read_live_data: self.read_pid(pid) for one pid; ConnectionLostError is
\* re-raised, every other exception is skipped (scanner.py:359-366)
ScanLiveDataPid ==
    /\ call.op = "read_live_data" /\ call.step = "pid"
    /\ LET pid == Upper(call.pids[call.k])
       IN  IF ~IsConnected
           THEN \* read_pid raises NotConnectedError
                /\ connected' = FALSE
                /\ LiveDataNext(call)
                /\ UNCHANGED <<elm_is_connected, sent>>
           ELSE IF pid \notin KnownPids
           THEN LiveDataNext(call) /\ UNCHANGED <<connected, elm_is_connected, sent>>
           ELSE \E env \in ScanEnv :
                   LET q == Query(sent, "01" \o pid, env)
                   IN  /\ connected' = q.connected
                       /\ elm_is_connected' = q.is_conn
                       /\ sent' = q.sent
                       /\ IF q.exc = "ConnectionLostError"
                          THEN Done([call EXCEPT !.lost = TRUE], "ConnectionLostError")
                          ELSE LiveDataNext(call)
    /\ UNCHANGED <<connection, port, chanVars, obdVars, extVars>>

\* read_freeze_frame(): entry check (scanner.py:386)
ScanReadFreezeFrame ==
    /\ call.step = "done"
    /\ IF ~IsConnected
       THEN NotConnected(Begin("read_freeze_frame"))
       ELSE /\ call' = [Begin("read_freeze_frame") EXCEPT !.step = "frame", !.k = 0]
            /\ outcome' = "none"
            /\ sent' = <<>>
            /\ UNCHANGED <<connected, elm_is_connected>>
    /\ UNCHANGED <<connection, port, chanVars, obdVars, extVars>>

\* read_freeze_frame(): the DTC query (k = 0) and the query of freeze_pids[k]
\* with frame_number 0 (scanner.py:391-439)
ScanFreezeFrameQuery ==
    /\ call.op = "read_freeze_frame" /\ call.step = "frame"
    /\ LET last == call.k = Len(FreezePids)
           cont == IF last THEN Done(call, "ok")
                   ELSE call' = [call EXCEPT !.k = call.k + 1] /\ UNCHANGED outcome
       IN  IF call.k > 0 /\ FreezePids[call.k] \notin KnownPids
           THEN cont /\ UNCHANGED <<connected, elm_is_connected, sent>>
           ELSE \E env \in ScanEnv :
                   LET command == IF call.k = 0 THEN "020200"
                                  ELSE "02" \o FreezePids[call.k] \o "00"
                       q == Query(sent, command, env)
                   IN  /\ connected' = q.connected
                       /\ elm_is_connected' = q.is_conn
                       /\ sent' = q.sent
                       /\ IF q.exc # "none"
                          THEN Done([call EXCEPT !.lost = q.lost], q.exc)
                          ELSE cont
    /\ UNCHANGED <<connection, port, chanVars, obdVars, extVars>>

\* read_readiness() (scanner.py:458-470)
ScanReadReadiness ==
    /\ call.step = "done"
    /\ OneQuery(Begin("read_readiness"), "0101")
    /\ UNCHANGED <<connection, port, chanVars, obdVars, extVars>>

\* get_mil_status() (scanner.py:549-560)
ScanGetMilStatus ==
    /\ call.step = "done"
    /\ OneQuery(Begin("get_mil_status"), "0101")
    /\ UNCHANGED <<connection, port, chanVars, obdVars, extVars>>

\* get_vehicle_info(): entry check (scanner.py:580)
ScanGetVehicleInfo ==
    /\ call.step = "done"
    /\ IF ~IsConnected
       THEN NotConnected(Begin("get_vehicle_info"))
       ELSE /\ call' = [Begin("get_vehicle_info") EXCEPT !.step = "protocol"]
            /\ outcome' = "none"
            /\ sent' = <<>>
            /\ UNCHANGED <<connected, elm_is_connected>>
    /\ UNCHANGED <<connection, port, chanVars, obdVars, extVars>>

\* get_vehicle_info(): self.elm.get_protocol() sends ATDPN and turns every
\* exception into the text "Unknown (disconnected)" (protocol.py:51-55)
ScanVehicleProtocol ==
    /\ call.op = "get_vehicle_info" /\ call.step = "protocol"
    /\ \E env \in ScanEnv :
          LET x == Exchange(sent, "ATDPN", env)
          IN  /\ elm_is_connected' = x.is_conn
              /\ sent' = x.sent
              /\ call' = [call EXCEPT !.step = "vin",
                                      !.lost = (x.exc = "DeviceDisconnectedError")]
    /\ UNCHANGED <<connection, port, connected, outcome, chanVars, obdVars, extVars>>

\* get_vehicle_info(): the VIN query 0902 (scanner.py:589)
ScanVehicleVin ==
    /\ call.op = "get_vehicle_info" /\ call.step = "vin"
    /\ \E env \in ScanEnv :
          LET q == Query(sent, "0902", env)
          IN  /\ connected' = q.connected
              /\ elm_is_connected' = q.is_conn
              /\ sent' = q.sent
              /\ IF q.exc # "none"
                 THEN Done([call EXCEPT !.lost = call.lost \/ q.lost], q.exc)
                 ELSE call' = [call EXCEPT !.step = "mil"] /\ UNCHANGED outcome
    /\ UNCHANGED <<connection, port, chanVars, obdVars, extVars>>

\* get_vehicle_info(): self.get_mil_status() (scanner.py:607)
ScanVehicleMil ==
    /\ call.op = "get_vehicle_info" /\ call.step = "mil"
    /\ \E env \in ScanEnv :
          LET q == Query(sent, "0101", env)
          IN  /\ connected' = q.connected
              /\ elm_is_connected' = q.is_conn
              /\ sent' = q.sent
              /\ Done([call EXCEPT !.lost = call.lost \/ q.lost],
                      IF q.exc = "none" THEN "ok" ELSE q.exc)
    /\ UNCHANGED <<connection, port, chanVars, obdVars, extVars>>

ScanNext ==
    \/ ScanConnect \/ ScanNegSelect \/ ScanNegProbe \/ ScanNegRestore \/ ScanCanary
    \/ ScanDisconnect
    \/ ScanReadDtcs \/ ScanReadDtcsMode \/ ScanClearDtcs
    \/ ScanReadPid \/ ScanReadLiveData \/ ScanLiveDataPid
    \/ ScanReadFreezeFrame \/ ScanFreezeFrameQuery
    \/ ScanReadReadiness \/ ScanGetMilStatus
    \/ ScanGetVehicleInfo \/ ScanVehicleProtocol \/ ScanVehicleVin \/ ScanVehicleMil

SpecScan == ScanInit /\ [][ScanNext]_vars

ScanDone(op) == call.op = op /\ call.step = "done"

\* C1: connect() sets the scanner Connected only after the adapter channel was
\* opened and a 0100 query sent after the negotiation step (which ends with
\* ATSP0) returned a response containing 4100; a failed negotiation alone never
\* makes connect() fail; whenever connect() raises, is_connected is False
\* afterwards, whatever the state was before the call.
C1_ConnectCanary ==
    /\ [](ScanDone("connect") /\ outcome = "ok" =>
            /\ connected /\ connection = "Open"
            /\ call.neg # "none"
            /\ Contains(call.canary, "4100")
            /\ Len(sent) >= 2 /\ sent[Len(sent)] = "0100" /\ sent[Len(sent) - 1] = "ATSP0")
    /\ [](ScanDone("connect") /\ call.neg \in {"failed", "raised"} =>
            (outcome = "ok" <=> (Contains(call.canary, "4100")
                                 /\ call.canary \notin {"DISCONNECTED", "ERROR", "NO CONNECT"})))
    /\ [](ScanDone("connect") /\ outcome # "ok" =>
            (outcome = "ConnectionError" /\ ~IsConnected))
    /\ [][(connected' /\ ~connected) => (call'.op = "connect" /\ call'.step = "done"
                                        /\ outcome' = "ok")]_vars

\* connect() succeeded although no candidate protocol answered the negotiation
C1_Witness ==
    ScanDone("connect") /\ outcome = "ok" /\ call.neg = "failed" /\ call.started

\* C2: called while the scanner is not Connected, each data-returning operation
\* raises NotConnectedError and sends no command to the adapter.
C2_NotConnectedRaises ==
    (call.op \in DataOps /\ call.step = "done" /\ ~call.started) =>
        (outcome = "NotConnectedError" /\ sent = <<>>)

\* C3: when an exchange of a data operation that started Connected reports a
\* disconnection, the operation ends with ConnectionLostError and the scanner
\* is Disconnected.
C3_LostRaisesConnectionLost ==
    (call.op \in DataOps /\ call.step = "done" /\ call.started /\ call.lost) =>
        (outcome = "ConnectionLostError" /\ ~connected)

\* C4: when an operation raises ConnectionLostError the scanner is already
\* Disconnected, the next data operation raises NotConnectedError without
\* sending anything, and only a successful connect() makes it Connected again.
C4_LostThenNotConnected ==
    /\ []((call.step = "done" /\ outcome = "ConnectionLostError") => ~connected)
    /\ []((call.op \in DataOps /\ call.step = "done" /\ call.after_lost) =>
            (outcome = "NotConnectedError" /\ sent = <<>>))
    /\ [][(connected' /\ ~connected) => (call'.op = "connect" /\ outcome' = "ok")]_vars

-----------------------------------------------------------------------------
(* Specification SpecNeg: negotiate_protocol(elm) called on an ELM327         *)
(* (src/obd/elm/protocol.py:28-48), one step per exchange.  The adapter       *)
(* selects protocol p when an ATSP<p> command reaches it.                     *)

\* response lines of one exchange during the negotiation
NegReplies == { <<>>,
                <<"41 00 BE 3F A8 13">>,
                <<"searching...", "7e8 06 41 00 be 3f a8 13">>,
                <<"NO DATA">>,
                <<"SEARCHING...", "UNABLE TO CONNECT">> }

\* what happens to one send_raw_lines call: it returns lines, or a fault is
\* raised by write()/flush() (the command does not reach the adapter) or by
\* in_waiting/read() (it does)
NegEnv == [type : {"lines"}, lines : NegReplies]
          \cup [type : {"fault"}, at : {"write", "read"}, fault : ChanFaults]

\* protocols the adapter may have selected before the call
AdapterProtocols == {"0", "3"}

IdleNeg == [step |-> "idle", k |-> 0, tried |-> <<>>, sent |-> <<>>, probes |-> <<>>,
            ret |-> "-", exc |-> "none", restore |-> "-"]

NegInit == /\ connection \in {"None", "Open"}
           /\ elm_is_connected = (connection = "Open")
           /\ port = FirstPort
           /\ neg = IdleNeg
           /\ adapter_protocol \in AdapterProtocols
           /\ NoChan /\ NoScan /\ NoObd /\ NoNegRest

\* one send_raw_lines(command) call: exception raised, lines returned,
\* ELM327._is_connected afterwards, and whether the command was written
NegExchange(command, env) ==
    IF connection = "None"
    THEN [exc |-> "DeviceDisconnectedError", lines |-> <<>>, is_conn |-> FALSE, wrote |-> FALSE]
    ELSE IF env.type = "fault"
    THEN [exc |-> RaisedFor(env.fault), lines |-> <<>>,
          is_conn |-> IsConnectedAfterFault(env.fault, elm_is_connected),
          wrote |-> (env.at = "read")]
    ELSE [exc |-> "none", lines |-> env.lines, is_conn |-> elm_is_connected, wrote |-> TRUE]

\* the protocol the adapter has selected after the command
AdapterAfter(command, wrote, before) ==
    IF wrote /\ Len(command) = 5 /\ SubSeq(command, 1, 4) = "ATSP"
    THEN SubSeq(command, 5, 5)
    ELSE before

\* joined = " ".join(lines).upper().replace(" ", ""); "4100" in joined (protocol.py:39-40)
ProbeAnswered_AnyLine(lines) == lines # <<>>
ProbeAnswered(lines) == Contains(RemoveSpaces(Upper(JoinSpace(lines))), "4100")

\* where negotiate_protocol goes after the 0100 probe of candidate k
\* (protocol.py:40-48): return p through the finally block, the next
\* candidate, or the finally block followed by raise CommunicationError
NegAfterProbe_NoFinallyOnReturn(n, answered) ==
    IF answered
    THEN [n EXCEPT !.step = "done", !.ret = Candidates[n.k]]
    ELSE IF n.k < Len(Candidates)
    THEN [n EXCEPT !.step = "select", !.k = n.k + 1]
    ELSE [n EXCEPT !.step = "restore", !.exc = "CommunicationError"]

NegAfterProbe(n, answered) ==
    IF answered
    THEN [n EXCEPT !.step = "restore", !.ret = Candidates[n.k]]
    ELSE IF n.k < Len(Candidates)
    THEN [n EXCEPT !.step = "select", !.k = n.k + 1]
    ELSE [n EXCEPT !.step = "restore", !.exc = "CommunicationError"]

\* the call after command was tried with exchange outcome x
NegTried(command, x) ==
    [neg EXCEPT !.tried = Append(neg.tried, command),
                !.sent = IF x.wrote THEN Append(neg.sent, command) ELSE neg.sent]

\* elm.negotiate_protocol() is called
NegCall ==
    /\ neg.step \in {"idle", "done"}
    /\ neg' = [IdleNeg EXCEPT !.step = "select", !.k = 1]
    /\ UNCHANGED <<elmVars, adapter_protocol, chanVars, scanVars, obdVars, negRest>>

\* elm.send_raw_lines(f"ATSP{p}", timeout=1.0) (protocol.py:36)
NegSelect ==
    /\ neg.step = "select"
    /\ \E env \in NegEnv :
          LET command == "ATSP" \o Candidates[neg.k]
              x == NegExchange(command, env)
          IN  /\ elm_is_connected' = x.is_conn
              /\ adapter_protocol' = AdapterAfter(command, x.wrote, adapter_protocol)
              /\ neg' = IF x.exc # "none"
                        THEN [NegTried(command, x) EXCEPT !.step = "restore", !.exc = x.exc]
                        ELSE [NegTried(command, x) EXCEPT !.step = "probe"]
    /\ UNCHANGED <<connection, port, chanVars, scanVars, obdVars, negRest>>

\* lines = elm.send_raw_lines("0100", ...) and the test for 4100 (protocol.py:38-41)
NegProbe ==
    /\ neg.step = "probe"
    /\ \E env \in NegEnv :
          LET x == NegExchange("0100", env)
              n == [NegTried("0100", x) EXCEPT !.probes = Append(neg.probes, x.lines)]
          IN  /\ elm_is_connected' = x.is_conn
              /\ neg' = IF x.exc # "none"
                        THEN [NegTried("0100", x) EXCEPT !.step = "restore", !.exc = x.exc]
                        ELSE NegAfterProbe(n, ProbeAnswered(x.lines))
    /\ UNCHANGED <<connection, port, adapter_protocol, chanVars, scanVars, obdVars, negRest>>

\* the finally block: elm.send_raw_lines("ATSP0", timeout=1.0) with every
\* exception swallowed (protocol.py:42-46), then the return or the raise
NegRestore ==
    /\ neg.step = "restore"
    /\ \E env \in NegEnv :
          LET x == NegExchange("ATSP0", env)
          IN  /\ elm_is_connected' = x.is_conn
              /\ adapter_protocol' = AdapterAfter("ATSP0", x.wrote, adapter_protocol)
              /\ neg' = [NegTried("ATSP0", x) EXCEPT
                            !.step = "done",
                            !.restore = IF connection = "None" THEN "closed"
                                        ELSE IF env.type = "lines" THEN "ok"
                                        ELSE env.at]
    /\ UNCHANGED <<connection, port, chanVars, scanVars, obdVars, negRest>>

NegNext == NegCall \/ NegSelect \/ NegProbe \/ NegRestore

SpecNeg == NegInit /\ [][NegNext]_vars

\* the commands of the candidate loop (without the ATSP0 of the finally block)
NegLoopTried == IF neg.step = "done" /\ neg.tried # <<>>
                THEN SubSeq(neg.tried, 1, Len(neg.tried) - 1)
                ELSE neg.tried

\* the responses of NegReplies that contain 4100
NegAnswers == { <<"41 00 BE 3F A8 13">>, <<"searching...", "7e8 06 41 00 be 3f a8 13">> }

\* C11: negotiate_protocol tries the candidates in the order 0, 6, 7, 8, 9, for
\* each ATSP<p> and then 0100; it returns the first candidate whose 0100
\* response contains 4100 and selects no later candidate; when no candidate
\* answers it raises CommunicationError.
C11_CandidateOrder ==
    /\ \A i \in 1..Len(NegLoopTried) :
          NegLoopTried[i] = IF i % 2 = 1 THEN "ATSP" \o Candidates[(i + 1) \div 2] ELSE "0100"
    /\ \A i \in 1..(Len(neg.probes) - 1) : neg.probes[i] \notin NegAnswers
    /\ neg.step \in {"restore", "done"} /\ neg.probes # <<>>
         /\ neg.probes[Len(neg.probes)] \in NegAnswers =>
            /\ neg.ret = Candidates[Len(neg.probes)]
            /\ neg.exc = "none"
            /\ Len(NegLoopTried) = 2 * Len(neg.probes)
    /\ neg.ret # "-" => neg.probes # <<>> /\ neg.probes[Len(neg.probes)] \in NegAnswers
    /\ neg.step = "done" /\ Len(neg.probes) = Len(Candidates)
         /\ neg.probes[Len(neg.probes)] \notin NegAnswers =>
            (neg.exc = "CommunicationError" /\ neg.ret = "-")

\* the third candidate won after two candidates that gave no 4100
C11_Witness ==
    neg.step = "done" /\ neg.ret = "7" /\ Len(neg.probes) = 3 /\ neg.probes[1] = <<"NO DATA">>

-----------------------------------------------------------------------------
(* UdsClient (src/obd/uds/client.py).  Bytes are numbers 0..255 and a bytes *)
(* object is a sequence of them.  UdsService and UdsTransport are imported  *)
(* from obd/uds/services.py and obd/uds/transport.py.                       *)

\* the most method calls made on one client
MaxUdsCalls == 3

\* UdsService.build_request(service_id, data): the service id byte, then data
BuildRequest(service_id, data) == <<service_id>> \o data

\* UdsService.is_negative_response(response): leading byte 0x7F
IsNegativeResponse(response) == Len(response) >= 1 /\ response[1] = 127

\* UdsService.parse_negative(response): (original service id, NRC)
ParseNegative(response) == [svc |-> response[2], nrc |-> response[3]]

\* UdsService.positive_response(service_id)
PositiveResponse(service_id) == service_id + 64

\* what the transport can do with configure() and send(): work, or raise one
\* of the adapter channel's exceptions
UdsTransportFaults == {"CommunicationError", "DeviceDisconnectedError"}
UdsTransportOutcomes == {"ok"} \cup UdsTransportFaults

\* response bytes the transport can hand back from send()
UdsReplies ==
    { <<>>,
      <<127, 34, 49>>,            \* 7F 22 31
      <<127, 16, 18>>,            \* 7F 10 12
      <<80, 3>>,                  \* 50 03
      <<126, 0>>,                 \* 7E 00
      <<98, 241, 144, 49, 50>>,   \* 62 F1 90 31 32
      <<98, 241>>,                \* 62 F1 (too short for a DID read)
      <<110, 241, 144>>,          \* 6E F1 90
      <<113, 1, 2, 3, 0>>,        \* 71 01 02 03 00
      <<34, 241, 144>> }          \* 22 F1 90 (the request echoed)

\* what the transport does during one method call
UdsEnv ==
    { [configure |-> c, send |-> "ok", response |-> r] :
          c \in UdsTransportOutcomes, r \in UdsReplies }
    \cup { [configure |-> c, send |-> f, response |-> <<>>] :
          c \in UdsTransportOutcomes, f \in UdsTransportFaults }

\* DIDs, data written, session types, routines and raw service ids of the calls
UdsDids     == {61840, 257}               \* F190, 0101
UdsData     == {<<>>, <<127, 2>>}
UdsSessions == {1, 3}
UdsRoutines == {[known |-> TRUE, routine_id |-> 515], [known |-> FALSE, routine_id |-> 0]}
UdsRawSids  == {34, 63}

\* _to_did_bytes(did) for an int: did.to_bytes(2, byteorder="big")
ToDidBytes(did) == <<did \div 256, did % 256>>

\* int.from_bytes(resp_did, 'big')
FromBytes(b) == b[1] * 256 + b[2]

\* response[i:] of a bytes object (i counted from 0)
BytesFrom(b, i) == SubSeq(b, i + 1, Len(b))

\* UdsClient.__init__
NewClient(auto_configure) ==
    [auto_configure  |-> auto_configure,
     configured      |-> FALSE,
     auto_calls      |-> 0,       \* transport.configure() reached from _ensure_configured
     explicit_calls  |-> 0,       \* transport.configure() reached from a direct configure()
     sends           |-> 0,       \* transport.send() calls
     unconf_sends    |-> 0,       \* transport.send() calls made while _configured was False
     calls           |-> 0]

NoCall ==
    [op |-> "none", service_id |-> -1, request |-> <<>>, received |-> FALSE,
     response |-> <<>>, exc |-> "none", svc |-> -1, nrc |-> -1,
     expect_returned |-> FALSE, returned |-> FALSE, ret |-> <<>>, did |-> -1]

UdsInit == /\ uds \in { NewClient(a) : a \in BOOLEAN }
           /\ uds_call = NoCall
           /\ NoElm /\ NoChan /\ NoScan /\ NoObd /\ NoNeg /\ NoUdsRest

\* configure(): self.transport.configure(); self._configured = True
Configure(c, env, auto) ==
    [client |-> [c EXCEPT !.auto_calls = IF auto THEN @ + 1 ELSE @,
                          !.explicit_calls = IF auto THEN @ ELSE @ + 1,
                          !.configured = IF env.configure = "ok" THEN TRUE ELSE @],
     exc    |-> IF env.configure = "ok" THEN "none" ELSE env.configure]

\* _ensure_configured()
EnsureConfigured(c, env) ==
    IF c.auto_configure /\ ~c.configured
    THEN Configure(c, env, TRUE)
    ELSE [client |-> c, exc |-> "none"]

\* response = self.transport.send(request), on the client's counters
Sent(c) == [c EXCEPT !.sends = @ + 1,
                     !.unconf_sends = IF c.configured THEN @ ELSE @ + 1]

\* if UdsService.is_negative_response(response): raise UdsNegativeResponse(svc, nrc)
NegativeCheck_Never(response) ==
    [exc |-> "none", svc |-> -1, nrc |-> -1]

NegativeCheck(response) ==
    IF IsNegativeResponse(response)
    THEN [exc |-> "UdsNegativeResponse",
          svc |-> ParseNegative(response).svc, nrc |-> ParseNegative(response).nrc]
    ELSE [exc |-> "none", svc |-> -1, nrc |-> -1]

\* if response[0] != expected: raise UdsResponseError
PositiveCheck_Any(service_id, response) == "none"

PositiveCheck(service_id, response) ==
    IF response[1] # PositiveResponse(service_id) THEN "UdsResponseError" ELSE "none"

\* _send_and_expect(service_id, data): the client afterwards and the call record
SendAndExpect(c, service_id, data, env) ==
    LET e    == EnsureConfigured(c, env)
        base == [NoCall EXCEPT !.service_id = service_id]
        req  == [base EXCEPT !.request = BuildRequest(service_id, data)]
        got  == [req EXCEPT !.received = TRUE, !.response = env.response]
        neg_ == NegativeCheck(env.response)
    IN  IF e.exc # "none"
        THEN [client |-> e.client, call |-> [base EXCEPT !.exc = e.exc]]
        ELSE IF env.send # "ok"
        THEN [client |-> Sent(e.client), call |-> [req EXCEPT !.exc = env.send]]
        ELSE IF env.response = <<>>
        THEN [client |-> Sent(e.client), call |-> [got EXCEPT !.exc = "UdsResponseError"]]
        ELSE IF neg_.exc # "none"
        THEN [client |-> Sent(e.client),
              call |-> [got EXCEPT !.exc = neg_.exc, !.svc = neg_.svc, !.nrc = neg_.nrc]]
        ELSE IF PositiveCheck(service_id, env.response) # "none"
        THEN [client |-> Sent(e.client),
              call |-> [got EXCEPT !.exc = PositiveCheck(service_id, env.response)]]
        ELSE [client |-> Sent(e.client),
              call |-> [got EXCEPT !.expect_returned = TRUE, !.ret = env.response]]

\* a method call ends: the client and the record of the call are stored
UdsEnd(r, op, call_) ==
    /\ uds' = [r.client EXCEPT !.calls = @ + 1]
    /\ uds_call' = [call_ EXCEPT !.op = op]
    /\ UNCHANGED <<elmVars, chanVars, scanVars, obdVars, negVars, udsRest>>

UdsCanCall == uds.calls < MaxUdsCalls

\* configure() called directly
UdsConfigure ==
    /\ UdsCanCall
    /\ \E env \in UdsEnv :
        \E r \in {Configure(uds, env, FALSE)} :
            UdsEnd(r, "configure", [NoCall EXCEPT !.exc = r.exc, !.returned = r.exc = "none"])

\* diagnostic_session(session_type)
UdsDiagnosticSession ==
    /\ UdsCanCall
    /\ \E env \in UdsEnv, session_type \in UdsSessions :
        \E r \in {SendAndExpect(uds, 16, <<session_type>>, env)} :
            UdsEnd(r, "diagnostic_session",
                   [r.call EXCEPT !.returned = r.call.expect_returned, !.ret = <<>>])

\* tester_present()
UdsTesterPresent ==
    /\ UdsCanCall
    /\ \E env \in UdsEnv :
        \E r \in {SendAndExpect(uds, 62, <<0>>, env)} :
            UdsEnd(r, "tester_present",
                   [r.call EXCEPT !.returned = r.call.expect_returned, !.ret = <<>>])

\* read_did(brand, did): info["did"] and info["raw"]
UdsReadDid ==
    /\ UdsCanCall
    /\ \E env \in UdsEnv, did \in UdsDids :
        \E r \in {SendAndExpect(uds, 34, ToDidBytes(did), env)} :
            UdsEnd(r, "read_did",
                   IF ~r.call.expect_returned THEN r.call
                   ELSE IF Len(r.call.ret) < 3
                   THEN [r.call EXCEPT !.exc = "UdsResponseError", !.ret = <<>>]
                   ELSE [r.call EXCEPT !.returned = TRUE,
                                       !.did = FromBytes(SubSeq(r.call.ret, 2, 3)),
                                       !.ret = BytesFrom(r.call.ret, 3)])

\* write_did(brand, did, data): info["did"] and info["raw"] (the data written)
UdsWriteDid ==
    /\ UdsCanCall
    /\ \E env \in UdsEnv, did \in UdsDids, data \in UdsData :
        \E r \in {SendAndExpect(uds, 46, ToDidBytes(did) \o data, env)} :
            UdsEnd(r, "write_did",
                   IF ~r.call.expect_returned THEN r.call
                   ELSE IF Len(r.call.ret) < 3
                   THEN [r.call EXCEPT !.exc = "UdsResponseError", !.ret = <<>>]
                   ELSE [r.call EXCEPT !.returned = TRUE,
                                       !.did = FromBytes(SubSeq(r.call.ret, 2, 3)),
                                       !.ret = data])

\* routine_control(brand, routine_name, subfunction, payload_hex): "status"
UdsRoutineControl ==
    /\ UdsCanCall
    /\ \E routine \in UdsRoutines :
        IF ~routine.known
        THEN UdsEnd([client |-> uds], "routine_control",
                    [NoCall EXCEPT !.exc = "UdsResponseError"])
        ELSE \E env \in UdsEnv, payload \in UdsData : \E r \in {SendAndExpect(uds, 49,
                           <<1>> \o ToDidBytes(routine.routine_id) \o payload, env)} :
            UdsEnd(r, "routine_control",
                   IF ~r.call.expect_returned THEN r.call
                   ELSE [r.call EXCEPT !.returned = TRUE,
                                       !.ret = IF Len(r.call.ret) > 3
                                               THEN BytesFrom(r.call.ret, 3) ELSE <<>>])

\* send_raw(service_id, data, raise_on_negative)
SendRaw(c, service_id, data, raise_on_negative, env) ==
    LET e    == EnsureConfigured(c, env)
        base == [NoCall EXCEPT !.service_id = service_id]
        req  == [base EXCEPT !.request = BuildRequest(service_id, data)]
        got  == [req EXCEPT !.received = TRUE, !.response = env.response]
        neg_ == NegativeCheck(env.response)
    IN  IF e.exc # "none"
        THEN [client |-> e.client, call |-> [base EXCEPT !.exc = e.exc]]
        ELSE IF env.send # "ok"
        THEN [client |-> Sent(e.client), call |-> [req EXCEPT !.exc = env.send]]
        ELSE IF env.response = <<>>
        THEN [client |-> Sent(e.client), call |-> [got EXCEPT !.exc = "UdsResponseError"]]
        ELSE IF raise_on_negative /\ neg_.exc # "none"
        THEN [client |-> Sent(e.client),
              call |-> [got EXCEPT !.exc = neg_.exc, !.svc = neg_.svc, !.nrc = neg_.nrc]]
        ELSE [client |-> Sent(e.client),
              call |-> [got EXCEPT !.returned = TRUE, !.ret = env.response]]

UdsSendRaw ==
    /\ UdsCanCall
    /\ \E env \in UdsEnv, service_id \in UdsRawSids, data \in UdsData,
          raise_on_negative \in BOOLEAN :
        \E r \in {SendRaw(uds, service_id, data, raise_on_negative, env)} :
            UdsEnd(r, IF raise_on_negative THEN "send_raw_raising" ELSE "send_raw", r.call)

UdsNext == \/ UdsConfigure
           \/ UdsDiagnosticSession
           \/ UdsTesterPresent
           \/ UdsReadDid
           \/ UdsWriteDid
           \/ UdsRoutineControl
           \/ UdsSendRaw

SpecUds == UdsInit /\ [][UdsNext]_vars

\* the methods that go through _send_and_expect
ExpectOps == {"diagnostic_session", "tester_present", "read_did", "write_did",
              "routine_control"}

\* C13: in diagnostic_session, tester_present, read_did, write_did and
\* routine_control, a received response of three bytes or more whose first
\* byte is 0x7F ends the call with UdsNegativeResponse carrying the second
\* byte as service id and the third as NRC; it is never returned and never
\* reported as UdsResponseError.
C13_NegativeRaises ==
    (uds_call.op \in ExpectOps /\ uds_call.received
        /\ Len(uds_call.response) >= 3 /\ uds_call.response[1] = 127)
    => /\ uds_call.exc = "UdsNegativeResponse"
       /\ uds_call.svc = uds_call.response[2]
       /\ uds_call.nrc = uds_call.response[3]
       /\ ~uds_call.returned /\ ~uds_call.expect_returned

\* read_did answered 7F 22 31: UdsNegativeResponse(0x22, 0x31)
C13_Witness ==
    /\ uds_call.op = "read_did" /\ uds_call.response = <<127, 34, 49>>
    /\ uds_call.exc = "UdsNegativeResponse" /\ uds_call.svc = 34 /\ uds_call.nrc = 49

\* C14: _send_and_expect hands a response back only if its first byte is the
\* service id + 0x40; an empty response, or one whose first byte is neither
\* 0x7F nor that value, ends the call with UdsResponseError and never with
\* UdsNegativeResponse.
C14_PositiveOnlyExpected ==
    uds_call.op \in ExpectOps =>
        /\ uds_call.expect_returned =>
              /\ uds_call.received /\ uds_call.response # <<>>
              /\ uds_call.response[1] = uds_call.service_id + 64
        /\ (uds_call.received /\ (\/ uds_call.response = <<>>
                                  \/ uds_call.response[1] \notin
                                         {127, uds_call.service_id + 64}))
              => uds_call.exc = "UdsResponseError" /\ ~uds_call.returned

\* write_did answered with the echo of another service: UdsResponseError; and
\* a call answered 6E F1 90 returned
C14_Witness ==
    /\ uds_call.op = "write_did" /\ uds_call.received
    /\ uds_call.response = <<98, 241, 144, 49, 50>>
    /\ uds_call.exc = "UdsResponseError"

\* C15: with auto_configure enabled, whatever the requests did (failed, or the
\* configure attempt raised), _ensure_configured invoked transport.configure()
\* at most once, exactly once when a request was made and configure() was not
\* called directly, and no request reached transport.send() before it; a
\* configured client never becomes unconfigured; with auto_configure disabled
\* no request invokes configure().
C15_ConfigureOnce ==
    /\ [](/\ uds.auto_configure =>
               /\ uds.auto_calls <= 1
               /\ (uds.explicit_calls = 0 /\ uds_call.op \in ExpectOps \cup {"send_raw", "send_raw_raising"}
                     /\ ~(uds_call.op = "routine_control" /\ uds_call.service_id = -1))
                    => uds.auto_calls = 1
               /\ uds.unconf_sends = 0
          /\ ~uds.auto_configure => uds.auto_calls = 0)
    /\ [][uds.configured => uds'.configured]_vars


-----------------------------------------------------------------------------
(* read_dtcs: the commands of one call *)

\* C16: read_dtcs sends 03, 07 and 0A in this order, each once in a call that
\* returns; a call that raised sent only the modes up to the failed exchange,
\* and nothing more is sent by that call afterwards.
C16_DtcCommandOrder ==
    /\ [](call.op = "read_dtcs" =>
            /\ Len(sent) <= 3
            /\ \A i \in 1..Len(sent) : sent[i] = <<"03", "07", "0A">>[i]
            /\ (call.step = "done" /\ outcome = "ok") => sent = <<"03", "07", "0A">>
            /\ call.step # "done" => outcome = "none")
    /\ [][(call.op = "read_dtcs" /\ call.step = "done" /\ call'.op = "read_dtcs"
             /\ call'.step = "done")
          => (sent' = sent \/ sent' = <<>>)]_vars

\* a read_dtcs call whose 07 exchange raised CommunicationError
C16_Witness ==
    /\ call.op = "read_dtcs" /\ call.step = "done" /\ outcome = "ScannerError"
    /\ sent = <<"03", "07">>


-----------------------------------------------------------------------------
(* DTC decoding (src/obd/dtc/decode.py, src/obd/dtc/parse.py) and the list  *)
(* read_dtcs builds from the answers to 03, 07 and 0A (scanner.py:216-277)  *)

HexSeq == <<"0","1","2","3","4","5","6","7","8","9","A","B","C","D","E","F">>

\* int(c, 16) for one character; IsHex(c) is FALSE where it raises ValueError
IsHex(c) == UpperCh(c) \in HexDigits
HexVal(c) == CHOOSE n \in 0..15 : HexSeq[n + 1] = UpperCh(c)

\* s.startswith(p)
StartsWith(s, p) == Len(s) >= Len(p) /\ SubSeq(s, 1, Len(p)) = p

\* s.replace(sub, "", 1): the first occurrence of sub is removed
ReplaceFirst(s, sub) ==
    IF ~Contains(s, sub) THEN s
    ELSE LET i == CHOOSE j \in 1..(Len(s) - Len(sub) + 1) :
                     /\ SubSeq(s, j, j + Len(sub) - 1) = sub
                     /\ \A k \in 1..(j - 1) : SubSeq(s, k, k + Len(sub) - 1) # sub
         IN  SubSeq(s, 1, i - 1) \o SubSeq(s, i + Len(sub), Len(s))

\* decode_dtc_bytes(hex_bytes)
DecodeDtcBytes_BodyBeforeChassis(hex_bytes) ==
    IF Len(hex_bytes) # 4 \/ ~IsHex(SubSeq(hex_bytes, 1, 1))
    THEN "INVALID:" \o hex_bytes
    ELSE LET first_nibble == HexVal(SubSeq(hex_bytes, 1, 1))
             type_bits    == (first_nibble \div 4) % 4
             second_char  == HexSeq[(first_nibble % 4) + 1]
             rest         == Upper(SubSeq(hex_bytes, 2, 4))
         IN  <<"P", "B", "C", "U">>[type_bits + 1] \o second_char \o rest

DecodeDtcBytes_RawDigit(hex_bytes) ==
    IF Len(hex_bytes) # 4 \/ ~IsHex(SubSeq(hex_bytes, 1, 1))
    THEN "INVALID:" \o hex_bytes
    ELSE LET first_nibble == HexVal(SubSeq(hex_bytes, 1, 1))
             type_bits    == (first_nibble \div 4) % 4
         IN  <<"P", "C", "B", "U">>[type_bits + 1] \o Upper(hex_bytes)

DecodeDtcBytes(hex_bytes) ==
    IF Len(hex_bytes) # 4 \/ ~IsHex(SubSeq(hex_bytes, 1, 1))
    THEN "INVALID:" \o hex_bytes
    ELSE LET first_nibble == HexVal(SubSeq(hex_bytes, 1, 1))
             type_bits    == (first_nibble \div 4) % 4
             second_char  == HexSeq[(first_nibble % 4) + 1]
             rest         == Upper(SubSeq(hex_bytes, 2, 4))
         IN  <<"P", "C", "B", "U">>[type_bits + 1] \o second_char \o rest

\* the loop of parse_dtc_response over resp[i : i + 4], i = 0, 4, 8, ...
RECURSIVE ParseChunks(_, _)
ParseChunks(resp, i) ==
    IF i > Len(resp) THEN <<>>
    ELSE LET chunk    == SubSeq(resp, i, IF i + 3 <= Len(resp) THEN i + 3 ELSE Len(resp))
             dtc_code == DecodeDtcBytes(chunk)
         IN  IF Len(chunk) < 4 \/ chunk = "0000" \/ StartsWith(dtc_code, "INVALID")
             THEN ParseChunks(resp, i + 4)
             ELSE <<dtc_code>> \o ParseChunks(resp, i + 4)

\* parse_dtc_response(response, mode)
ParseDtcResponse(response, mode) ==
    IF response = "" THEN <<>>
    ELSE LET prefix == CASE mode = "03" -> "43" [] mode = "07" -> "47"
                         [] mode = "0A" -> "4A" [] OTHER -> "43"
             resp   == Upper(RemoveSpaces(response))
         IN  ParseChunks(IF Contains(resp, prefix) THEN ReplaceFirst(resp, prefix) ELSE resp, 1)

\* the codes read_dtcs takes from the lines of one mode (scanner.py:223-229):
\* none when the joined text holds an error token
ModeCodes(lines, mode) ==
    LET joined == Upper(JoinSpace(lines))
    IN  IF \E err \in {"NO DATA", "UNABLE TO CONNECT", "ERROR", "?"} : Contains(joined, err)
        THEN <<>>
        ELSE ParseDtcResponse(HexOnly(joined), mode)

\* for code in ...: dtcs.append(DiagnosticCode(code, status="stored")) (scanner.py:229-235)
RECURSIVE AppendAll(_, _, _)
AppendAll(dtcs, codes, status) ==
    IF codes = <<>> THEN dtcs
    ELSE AppendAll(Append(dtcs, [code |-> Head(codes), status |-> status]), Tail(codes), status)

\* for code in ...: if not any(d.code == code for d in dtcs): dtcs.append(...)
\* (scanner.py:245-252, 262-269)
RECURSIVE AppendNew(_, _, _)
AppendNew(dtcs, codes, status) ==
    IF codes = <<>> THEN dtcs
    ELSE AppendNew(IF \E i \in 1..Len(dtcs) : dtcs[i].code = Head(codes)
                   THEN dtcs
                   ELSE Append(dtcs, [code |-> Head(codes), status |-> status]),
                   Tail(codes), status)

\* read_dtcs() of a connected scanner for the lines of the three exchanges
ReadDtcsList(in) ==
    LET gone(k) == Contains(Upper(JoinSpace(in[k])), "DISCONNECTED")
        stored  == AppendAll(<<>>, ModeCodes(in[1], "03"), "stored")
        pending == AppendNew(stored, ModeCodes(in[2], "07"), "pending")
    IN  IF gone(1) \/ gone(2) \/ gone(3)
        THEN [done |-> TRUE, exc |-> "ConnectionLostError", dtcs |-> <<>>]
        ELSE [done |-> TRUE, exc |-> "none",
              dtcs |-> AppendNew(pending, ModeCodes(in[3], "0A"), "permanent")]

\* answers of the adapter to a DTC query whose response prefix is p
DtcAnswers(p) ==
    { <<>>,
      <<"NO DATA">>,
      <<p \o " 01 33 00 00 00 00">>,
      <<p \o " 01 33 01 33 C1 00">>,
      <<p \o " 41 33 01 18 0">>,
      <<"7e8 06 " \o p \o " 01 01 33 00 00">>,
      <<"SEARCHING...", p \o " 81 33 01 18">> }

DtcInputs == { <<a, b, c>> : a \in DtcAnswers("43"), b \in DtcAnswers("47"),
                              c \in DtcAnswers("4A") }

DtcInit == /\ dtc_in \in DtcInputs /\ dtc_out = [done |-> FALSE]
           /\ NoElm /\ NoChan /\ NoScan /\ NoObd /\ NoNeg /\ NoUds /\ NoDtcRest

\* dtcs = scanner.read_dtcs()
DtcRead == /\ ~dtc_out.done
           /\ dtc_out' = ReadDtcsList(dtc_in)
           /\ UNCHANGED <<dtc_in, elmVars, chanVars, scanVars, obdVars, negVars, udsVars,
                          dtcRest>>

DtcNext == DtcRead

SpecDtc == DtcInit /\ [][DtcNext]_vars

\* the status of the mode at position k of the read
StatusOfMode == <<"stored", "pending", "permanent">>

\* C17: the list read_dtcs returns never holds two entries with the same code,
\* whether the code came twice in one mode's response or in two modes; each
\* code has the status of the first of the modes 03, 07, 0A whose response
\* held it.
C17_NoDuplicateCodes ==
    (dtc_out.done /\ dtc_out.exc = "none") =>
        /\ \A i, j \in 1..Len(dtc_out.dtcs) :
              dtc_out.dtcs[i].code = dtc_out.dtcs[j].code => i = j
        /\ \A i \in 1..Len(dtc_out.dtcs) :
              \E k \in 1..3 :
                /\ dtc_out.dtcs[i].status = StatusOfMode[k]
                /\ \E n \in 1..Len(ModeCodes(dtc_in[k], DtcModes[k])) :
                      ModeCodes(dtc_in[k], DtcModes[k])[n] = dtc_out.dtcs[i].code
                /\ \A m \in 1..(k - 1) :
                      \A n \in 1..Len(ModeCodes(dtc_in[m], DtcModes[m])) :
                          ModeCodes(dtc_in[m], DtcModes[m])[n] # dtc_out.dtcs[i].code

\* the characters of a DTC code
DtcLetters == {"P", "C", "B", "U"}
DtcDigits  == {"0", "1", "2", "3"}

\* C18: every code read_dtcs returns is a string of five characters, a letter
\* of P, C, B, U, a digit 0..3 and three hex digits; no INVALID marker and no
\* string of another length is returned.
C18_CodeFormat ==
    dtc_out.done =>
        \A i \in 1..Len(dtc_out.dtcs) :
            \E c \in {dtc_out.dtcs[i].code} :
                /\ Len(c) = 5
                /\ SubSeq(c, 1, 1) \in DtcLetters
                /\ SubSeq(c, 2, 2) \in DtcDigits
                /\ \A k \in 3..5 : SubSeq(c, k, k) \in
                       {"0","1","2","3","4","5","6","7","8","9","A","B","C","D","E","F"}

\* a read that returned C0133 (bytes 41 33) as stored and P0118 (bytes 01 18)
C18_Witness ==
    /\ dtc_out.done
    /\ \E i, j \in 1..Len(dtc_out.dtcs) :
          /\ dtc_out.dtcs[i] = [code |-> "C0133", status |-> "stored"]
          /\ dtc_out.dtcs[j].code = "P0118"


-----------------------------------------------------------------------------
(* clear_dtcs of a connected scanner on a given answer of the adapter       *)
(* (scanner.py:286-296)                                                     *)

ClrLineMenu == {"44", "7E8 01 44", "7e8 01 44", "744 03 7F 04 22", "7E8 03 7F 04 40",
                "7E8 03 7F 04 22", "NO DATA", "SEARCHING..."}

MaxClrLines == 2

ClrLineLists == UNION {[1..n -> ClrLineMenu] : n \in 0..MaxClrLines}

\* what happens inside send_raw_lines("04"): lines come back or a fault is raised
ClrInputs == [type : {"lines"}, lines : ClrLineLists] \cup [type : {"fault"}, fault : Faults]

\* clear_dtcs(): response = self.elm.send_obd("04"), then the tests on it
ClearDtcs(in) ==
    LET response == SendObdResult(RawOutcome(in))
    IN  IF response = "DISCONNECTED"
        THEN [done |-> TRUE, exc |-> "ConnectionLostError", ret |-> FALSE, sent |-> <<"04">>,
              connected |-> FALSE]
        ELSE [done |-> TRUE, exc |-> "none", ret |-> Contains(Upper(response), "44"),
              sent |-> <<"04">>, connected |-> TRUE]

ClrInit == /\ clr_in \in ClrInputs /\ clr_out = [done |-> FALSE]
           /\ NoElm /\ NoChan /\ NoScan /\ NoObd /\ NoNeg /\ NoUds /\ NoDtc /\ NoClrRest

\* ok = scanner.clear_dtcs()
ClrCall == /\ ~clr_out.done
           /\ clr_out' = ClearDtcs(clr_in)
           /\ UNCHANGED <<clr_in, elmVars, chanVars, scanVars, obdVars, negVars, udsVars,
                          dtcVars, clrRest>>

ClrNext == ClrCall

SpecClear == ClrInit /\ [][ClrNext]_vars

\* the answer lines in which a payload byte (after the ECU id and the length
\* byte) is 44
LinesWithByte44 == {"44", "7E8 01 44", "7e8 01 44"}

\* C19: clear_dtcs sends one 04 command and returns True only if a payload
\* byte of the answer is 0x44; the digits of an ECU id or length byte, or a 4
\* ending one byte and a 4 starting the next, do not make it True; a
\* disconnected adapter makes it raise ConnectionLostError.
C19_ClearNeedsByte44 ==
    clr_out.done =>
        /\ clr_out.sent = <<"04">>
        /\ (clr_out.exc = "none" /\ clr_out.ret) =>
              /\ clr_in.type = "lines"
              /\ \E i \in 1..Len(clr_in.lines) : clr_in.lines[i] \in LinesWithByte44
        /\ (clr_in.type = "fault" /\ RaisedFor(clr_in.fault) = "DeviceDisconnectedError")
              => clr_out.exc = "ConnectionLostError"


-----------------------------------------------------------------------------
(* read_pid of a connected scanner on given answer lines: the response      *)
(* normalizer (src/obd/obd_parse.py), decode_pid_response                   *)
(* (src/obd/pids/decode.py) and read_pid (scanner.py:315-345).  The PIDS    *)
(* table is in src/obd/pids/standard_mode01.py.                             *)

NOISE_PREFIXES == {"SEARCHING", "BUS INIT", "UNABLE TO CONNECT", "STOPPED", "NO DATA",
                   "CAN ERROR", "BUFFER FULL", "BUS BUSY", "BUS ERROR", "DATA ERROR",
                   "?", "ELM", "OK"}

\* str.strip() of a line
RECURSIVE StrLStrip(_)
StrLStrip(s) == IF s # "" /\ SubSeq(s, 1, 1) \in {" ", "\r", "\n", "\t"}
                THEN StrLStrip(SubSeq(s, 2, Len(s))) ELSE s
RECURSIVE StrRStrip(_)
StrRStrip(s) == IF s # "" /\ SubSeq(s, Len(s), Len(s)) \in {" ", "\r", "\n", "\t"}
                THEN StrRStrip(SubSeq(s, 1, Len(s) - 1)) ELSE s
StrStrip(s) == StrRStrip(StrLStrip(s))

\* _is_noise(line)
IsNoise(line) == \E up \in {Upper(StrStrip(line))} : \E p \in NOISE_PREFIXES : StartsWith(up, p)

\* normalize_tokens(line) from character i on, tok being the token under way:
\* characters other than hex digits and spaces are dropped, the rest is split
\* at spaces and upper-cased
RECURSIVE TokensFrom(_, _, _)
TokensFrom(line, i, tok) ==
    IF i > Len(line) THEN (IF tok = "" THEN <<>> ELSE <<tok>>)
    ELSE LET c == SubSeq(line, i, i)
         IN  IF c = " " THEN (IF tok = "" THEN <<>> ELSE <<tok>>) \o TokensFrom(line, i + 1, "")
             ELSE IF IsHex(c) THEN TokensFrom(line, i + 1, tok \o UpperCh(c))
             ELSE TokensFrom(line, i + 1, tok)

NormalizeTokens(line) == TokensFrom(line, 1, "")

\* HEXISH_RE.match(s): one or more characters, all hex digits or spaces
Hexish(s) == s # "" /\ \A i \in 1..Len(s) : SubSeq(s, i, i) = " " \/ IsHex(SubSeq(s, i, i))

\* out.setdefault(ecu, []).append(tokens) on a dict kept as the sequence of
\* its items in insertion order
SetDefaultAppend_Overwrite(out, ecu, tokens) ==
    IF \E k \in 1..Len(out) : out[k].ecu = ecu
    THEN [k \in 1..Len(out) |-> IF out[k].ecu = ecu
                                THEN [out[k] EXCEPT !.msgs = <<tokens>>] ELSE out[k]]
    ELSE Append(out, [ecu |-> ecu, msgs |-> <<tokens>>])

SetDefaultAppend(out, ecu, tokens) ==
    IF \E k \in 1..Len(out) : out[k].ecu = ecu
    THEN [k \in 1..Len(out) |-> IF out[k].ecu = ecu
                                THEN [out[k] EXCEPT !.msgs = Append(@, tokens)] ELSE out[k]]
    ELSE Append(out, [ecu |-> ecu, msgs |-> <<tokens>>])

\* group_by_ecu(lines, headers_on)
RECURSIVE GroupByEcu(_, _, _)
GroupByEcu(lines, headers_on, out) ==
    IF lines = <<>> THEN out
    ELSE LET ln     == Head(lines)
             tokens == NormalizeTokens(ln)
         IN  IF ln = "" \/ IsNoise(ln) \/ tokens = <<>> \/ ~Hexish(JoinSpace(tokens))
             THEN GroupByEcu(Tail(lines), headers_on, out)
             ELSE GroupByEcu(Tail(lines), headers_on,
                             SetDefaultAppend(out, IF headers_on THEN tokens[1] ELSE "NOHDR",
                                              tokens))

\* int(t, 16) for a token of hex digits
RECURSIVE HexInt(_)
HexInt(t) == IF t = "" THEN 0
             ELSE 16 * HexInt(SubSeq(t, 1, Len(t) - 1)) + HexVal(SubSeq(t, Len(t), Len(t)))

\* payload_from_tokens(tokens, headers_on)
PayloadFromTokens_StrictLess(tokens, headers_on) ==
    LET rest == IF headers_on THEN Tail(tokens) ELSE tokens
    IN  IF rest # <<>> /\ 0 < HexInt(rest[1]) /\ HexInt(rest[1]) < Len(rest) - 1
        THEN Tail(rest)
        ELSE rest

PayloadFromTokens(tokens, headers_on) ==
    LET rest == IF headers_on THEN Tail(tokens) ELSE tokens
    IN  IF rest # <<>> /\ 0 < HexInt(rest[1]) /\ HexInt(rest[1]) <= Len(rest) - 1
        THEN Tail(rest)
        ELSE rest

\* out.extend(payload_from_tokens(msg)) for the messages of one ECU
RECURSIVE ExtendAll(_, _)
ExtendAll(msgs, headers_on) ==
    IF msgs = <<>> THEN <<>>
    ELSE PayloadFromTokens(Head(msgs), headers_on) \o ExtendAll(Tail(msgs), headers_on)

\* merge_payloads(grouped, headers_on)
MergePayloads(grouped, headers_on) ==
    [k \in 1..Len(grouped) |->
        [ecu |-> grouped[k].ecu, payload |-> ExtendAll(grouped[k].msgs, headers_on)]]

\* the positions i of payload with payload[i : i + n] == expected_prefix
PrefixAt(payload, expected_prefix) ==
    { i \in 1..Len(payload) :
        /\ i + Len(expected_prefix) - 1 <= Len(payload)
        /\ SubSeq(payload, i, i + Len(expected_prefix) - 1) = expected_prefix }

Least(S) == CHOOSE x \in S : \A y \in S : x <= y

\* find_obd_response_payload(merged, expected_prefix), prefer_ecus = None
FindObdResponsePayload(merged, expected_prefix) ==
    LET hits == { k \in 1..Len(merged) : PrefixAt(merged[k].payload, expected_prefix) # {} }
    IN  IF hits = {} THEN [found |-> FALSE, ecu |-> "", payload |-> <<>>]
        ELSE LET k == Least(hits)
                 i == Least(PrefixAt(merged[k].payload, expected_prefix))
             IN  [found |-> TRUE, ecu |-> merged[k].ecu,
                  payload |-> SubSeq(merged[k].payload, i, Len(merged[k].payload))]

\* PIDS[pid].bytes and PIDS[pid].formula, in hundredths, for the PIDs read below
PidBytes(pid) == CASE pid = "0C" -> 2 [] pid = "0D" -> 1 [] pid = "05" -> 1
PidFormula100(pid, a, b) ==
    CASE pid = "0C" -> ((a * 256 + b) * 100) \div 4
      [] pid = "0D" -> a * 100
      [] pid = "05" -> (a - 40) * 100

\* decode_pid_response(pid, hex_data): [none |-> TRUE] is None
DecodePidResponse(pid, hex_data) ==
    LET p == Upper(StrStrip(pid))
    IN  IF p \notin KnownPids THEN [none |-> TRUE, value100 |-> 0]
        ELSE IF PidBytes(p) = 1 /\ Len(hex_data) >= 2
        THEN [none |-> FALSE,
              value100 |-> PidFormula100(p, HexInt(SubSeq(hex_data, 1, 2)), 0)]
        ELSE IF PidBytes(p) = 2 /\ Len(hex_data) >= 4
        THEN [none |-> FALSE,
              value100 |-> PidFormula100(p, HexInt(SubSeq(hex_data, 1, 2)),
                                         HexInt(SubSeq(hex_data, 3, 4)))]
        ELSE [none |-> TRUE, value100 |-> 0]

NoReading == [done |-> TRUE, none |-> TRUE, pid |-> "", raw_hex |-> "", value100 |-> 0]

\* read_pid(pid) once _check_connected() passed and the exchange gave lines
ReadPid(pid_arg, lines, headers_on) ==
    LET pid   == Upper(pid_arg)
        found == FindObdResponsePayload(
                     MergePayloads(GroupByEcu(lines, headers_on, <<>>), headers_on),
                     <<"41", pid>>)
        data_hex == Str(SubSeq(found.payload, 3, Len(found.payload)))
        value == DecodePidResponse(pid, data_hex)
    IN  IF pid \notin KnownPids THEN NoReading
        ELSE IF ~found.found \/ Len(found.payload) < 2 THEN NoReading
        ELSE IF value.none THEN NoReading
        ELSE [done |-> TRUE, none |-> FALSE, pid |-> pid, raw_hex |-> data_hex,
              value100 |-> value.value100]

ReadPidArgs == {"0C", "0c", "0D", "ZZ"}

ReadPidLineMenu == {"7E8 06 41 0C 1A F8 00 00", "7E8 04 41 0C 1A F8", "41 0C 1A F8",
                    "7E9 03 41 0D 3C", "7e8 03 41 0d 3c 00 00 00 00", "7E8 03 41 0C 1A",
                    "7E8 05 41 0C 1A F8 0",
                    "SEARCHING...", "NO DATA", ">"}

MaxPidLines == 2

ReadPidLineLists == UNION {[1..n -> ReadPidLineMenu] : n \in 0..MaxPidLines}

PidInputs == [pid : ReadPidArgs, lines : ReadPidLineLists, headers_on : BOOLEAN]

PidInit == /\ pid_in \in PidInputs /\ pid_out = [done |-> FALSE]
           /\ NoElm /\ NoChan /\ NoScan /\ NoObd /\ NoNeg /\ NoUds /\ NoDtc /\ NoClr
           /\ NoPidRest

\* reading = scanner.read_pid(pid)
PidRead == /\ ~pid_out.done
           /\ pid_out' = ReadPid(pid_in.pid, pid_in.lines, pid_in.headers_on)
           /\ UNCHANGED <<pid_in, elmVars, chanVars, scanVars, obdVars, negVars, udsVars,
                          dtcVars, clrVars, pidRest>>

PidNext == PidRead

SpecPid == PidInit /\ [][PidNext]_vars

\* C20: when the adapter answers 010C with '7E8 06 41 0C 1A F8 00 00' and the
\* prompt, read_pid('0C') returns a reading with pid '0C', raw_hex '1AF8' and
\* the RPM of bytes 0x1A, 0xF8 (1726.0); in every reading raw_hex holds the
\* declared number of data bytes of the PID (two for 0C, one for 0D) and no
\* trailing frame bytes.
C20_RawHexDeclaredBytes ==
    pid_out.done =>
        /\ (pid_in.pid = "0C" /\ pid_in.headers_on
              /\ pid_in.lines = <<"7E8 06 41 0C 1A F8 00 00", ">">>)
             => /\ ~pid_out.none /\ pid_out.pid = "0C" /\ pid_out.raw_hex = "1AF8"
                /\ pid_out.value100 = 172600
        /\ (~pid_out.none /\ pid_out.pid = "0C") => Len(pid_out.raw_hex) = 4
        /\ (~pid_out.none /\ pid_out.pid = "0D") => Len(pid_out.raw_hex) = 2


-----------------------------------------------------------------------------
(* SensorReading.raw_hex, and get_vehicle_info when the VIN query fails *)

\* C21: the raw_hex of every SensorReading read_pid produces has an even
\* length (whole bytes), whatever lines the adapter returned, lines with
\* tokens of one or three characters included.
C21_RawHexEven ==
    (pid_out.done /\ ~pid_out.none) => Len(pid_out.raw_hex) % 2 = 0

\* C22: get_vehicle_info never ends on its VIN exchange (0902) unless the
\* device was lost there: when that exchange fails in another way the call
\* goes on to the MIL query and returns.
C22_VinFailureTolerated ==
    (call.op = "get_vehicle_info" /\ call.step = "done"
        /\ sent # <<>> /\ sent[Len(sent)] = "0902")
    => (call.lost /\ outcome = "ConnectionLostError")


-----------------------------------------------------------------------------
(* The response normalizer on given lines: group_by_ecu, merge_payloads and *)
(* find_obd_response_payload with prefer_ecus (src/obd/obd_parse.py)        *)

\* ecu_order of find_obd_response_payload: the keys of merged in insertion
\* order or, with prefer_ecus, the preferred keys that are in merged followed
\* by the other keys
EcuOrder_ArrivalOnly(merged, prefer_ecus) ==
    [k \in 1..Len(merged) |-> merged[k].ecu]

EcuOrder(merged, prefer_ecus) ==
    LET keys      == [k \in 1..Len(merged) |-> merged[k].ecu]
        has(e)    == \E k \in 1..Len(keys) : keys[k] = e
        preferred == SelectSeq(prefer_ecus, has)
        other(e)  == \A j \in 1..Len(preferred) : preferred[j] # e
    IN  IF prefer_ecus = <<>> THEN keys ELSE preferred \o SelectSeq(keys, other)

\* merged_payloads.get(ecu, [])
PayloadOf(merged, ecu) ==
    IF \E k \in 1..Len(merged) : merged[k].ecu = ecu
    THEN merged[CHOOSE k \in 1..Len(merged) : merged[k].ecu = ecu].payload
    ELSE <<>>

\* the search loop of find_obd_response_payload over ecu_order
FindInOrder_AfterPrefix(merged, expected_prefix, order) ==
    LET hits == { j \in 1..Len(order) :
                    PrefixAt(PayloadOf(merged, order[j]), expected_prefix) # {} }
    IN  IF hits = {} THEN [found |-> FALSE, ecu |-> "", payload |-> <<>>]
        ELSE LET j == Least(hits)
                 p == PayloadOf(merged, order[j])
                 i == Least(PrefixAt(p, expected_prefix))
             IN  [found |-> TRUE, ecu |-> order[j],
                  payload |-> SubSeq(p, i + Len(expected_prefix), Len(p))]

FindInOrder(merged, expected_prefix, order) ==
    LET hits == { j \in 1..Len(order) :
                    PrefixAt(PayloadOf(merged, order[j]), expected_prefix) # {} }
    IN  IF hits = {} THEN [found |-> FALSE, ecu |-> "", payload |-> <<>>]
        ELSE LET j == Least(hits)
                 p == PayloadOf(merged, order[j])
                 i == Least(PrefixAt(p, expected_prefix))
             IN  [found |-> TRUE, ecu |-> order[j], payload |-> SubSeq(p, i, Len(p))]

\* find_obd_response_payload(merged_payloads, expected_prefix, prefer_ecus)
FindPreferred(merged, expected_prefix, prefer_ecus) ==
    FindInOrder(merged, expected_prefix, EcuOrder(merged, prefer_ecus))

\* the token lists of each ECU bucket with the payload payload_from_tokens
\* makes of each
FramesOf(grouped, headers_on) ==
    [k \in 1..Len(grouped) |->
        [m \in 1..Len(grouped[k].msgs) |->
            [tokens  |-> grouped[k].msgs[m],
             payload |-> PayloadFromTokens(grouped[k].msgs[m], headers_on)]]]

\* the three functions on the lines of one response
Normalize(in) ==
    LET grouped == GroupByEcu(in.lines, in.headers_on, <<>>)
        merged  == MergePayloads(grouped, in.headers_on)
    IN  [done |-> TRUE, grouped |-> grouped, frames |-> FramesOf(grouped, in.headers_on),
         merged |-> merged,
         found |-> FindPreferred(merged, in.expected_prefix, in.prefer_ecus)]

NormLineMenu == {"7E8 06 41 00 BE 3F B8 13", "7E0 06 41 00 98 18 80 01",
                 "7e8 07 41 00 be 3f b8 13", "7E0 00 41 00", "7E9 03 41 0C 1A",
                 "SEARCHING...", "7E8", "7E8 03 41 00 1A BUFFER FULL"}

MaxNormLines == 3

NormLineLists == UNION {[1..n -> NormLineMenu] : n \in 0..MaxNormLines}

NormInputs == [lines : NormLineLists, headers_on : BOOLEAN,
               expected_prefix : {<<"41", "00">>, <<"41", "0C">>},
               prefer_ecus : {<<>>, <<"7E8">>, <<"7EA", "7E8">>}]

NormInit == /\ norm_in \in NormInputs /\ norm_out = [done |-> FALSE]
            /\ NoElm /\ NoChan /\ NoScan /\ NoObd /\ NoNeg /\ NoUds /\ NoDtc /\ NoClr /\ NoPid
            /\ NoNormRest

NormCall == /\ ~norm_out.done
            /\ norm_out' = Normalize(norm_in)
            /\ UNCHANGED <<norm_in, elmVars, chanVars, scanVars, obdVars, negVars, udsVars,
                           dtcVars, clrVars, pidVars, normRest>>

NormNext == NormCall

SpecNorm == NormInit /\ [][NormNext]_vars

\* payload p holds the token sequence x from position i on
HoldsAt(p, x, i) == i + Len(x) - 1 <= Len(p) /\ SubSeq(p, i, i + Len(x) - 1) = x
Holds(p, x) == \E i \in 1..Len(p) : HoldsAt(p, x, i)

\* the ECUs of the merged map whose payload holds the expected prefix
Matching == { norm_out.merged[k].ecu : k \in { n \in 1..Len(norm_out.merged) :
                  Holds(norm_out.merged[n].payload, norm_in.expected_prefix) } }

\* C23: find_obd_response_payload returns the match of the first ECU of
\* prefer_ecus that matches, and only when none of them matches the match of
\* the matching ECU that arrived first; with prefer_ecus = ['7E8'] it returns
\* the 7E8 match although 7E0 arrived first and matches, without prefer_ecus
\* the 7E0 match.
C23_PreferredFirst ==
    (norm_out.done /\ norm_out.found.found) =>
        LET pe  == norm_in.prefer_ecus
            pjs == { j \in 1..Len(pe) : pe[j] \in Matching }
            ks  == { k \in 1..Len(norm_out.merged) : norm_out.merged[k].ecu \in Matching }
        IN  /\ pjs # {} =>
                  \E j \in pjs : /\ norm_out.found.ecu = pe[j]
                                 /\ \A i \in pjs : j <= i
            /\ pjs = {} =>
                  \E k \in ks : /\ norm_out.found.ecu = norm_out.merged[k].ecu
                                /\ \A i \in ks : k <= i

\* 7E0 arrived first, both match 41 00, prefer_ecus = ['7E8']: the 7E8 match
C23_Witness ==
    /\ norm_out.done /\ norm_in.headers_on
    /\ norm_in.lines = <<"7E0 06 41 00 98 18 80 01", "7E8 06 41 00 BE 3F B8 13">>
    /\ norm_in.prefer_ecus = <<"7E8">> /\ norm_in.expected_prefix = <<"41", "00">>
    /\ norm_out.found.found /\ norm_out.found.ecu = "7E8"
    /\ norm_out.found.payload = <<"41", "00", "BE", "3F", "B8", "13">>

\* C24: a payload find_obd_response_payload returns starts with
\* expected_prefix and is the whole tail of the returned ECU's merged payload
\* from the first occurrence of the prefix; nothing is returned exactly when
\* no ECU's merged payload holds the prefix.
C24_ContiguousTail ==
    norm_out.done =>
        /\ norm_out.found.found <=>
              \E k \in 1..Len(norm_out.merged) :
                  Holds(norm_out.merged[k].payload, norm_in.expected_prefix)
        /\ norm_out.found.found =>
              \E k \in 1..Len(norm_out.merged) :
                 LET p == norm_out.merged[k].payload
                 IN  /\ norm_out.merged[k].ecu = norm_out.found.ecu
                     /\ HoldsAt(norm_out.found.payload, norm_in.expected_prefix, 1)
                     /\ \E i \in 1..Len(p) :
                          /\ HoldsAt(p, norm_in.expected_prefix, i)
                          /\ \A n \in 1..(i - 1) : ~HoldsAt(p, norm_in.expected_prefix, n)
                          /\ norm_out.found.payload = SubSeq(p, i, Len(p))

\* a match that is not at the start of the payload and is followed by a
\* second frame of the same ECU
C24_Witness ==
    /\ norm_out.done /\ norm_in.headers_on
    /\ norm_in.lines = <<"7e8 07 41 00 be 3f b8 13", "7E8 06 41 00 BE 3F B8 13">>
    /\ norm_out.found.found
    /\ norm_out.found.payload = <<"41", "00", "BE", "3F", "B8", "13",
                                  "41", "00", "BE", "3F", "B8", "13">>

\* C25: with headers on, payload_from_tokens drops the token after the ECU id
\* exactly when its value v has 0 < v <= number of tokens after it; else the
\* token stays as the first payload byte.
C25_LengthByte ==
    (norm_out.done /\ norm_in.headers_on) =>
        \A k \in 1..Len(norm_out.frames) : \A m \in 1..Len(norm_out.frames[k]) :
            LET t == norm_out.frames[k][m].tokens
                p == norm_out.frames[k][m].payload
            IN  Len(t) >= 2 =>
                  IF 0 < HexInt(t[2]) /\ HexInt(t[2]) <= Len(t) - 2
                  THEN p = SubSeq(t, 3, Len(t))
                  ELSE p = SubSeq(t, 2, Len(t))

\* a frame whose length byte equals the count (dropped), one whose byte is one
\* greater (kept) and one whose byte is 0 (kept)
C25_Witness ==
    /\ norm_out.done /\ norm_in.headers_on
    /\ norm_in.lines = <<"7E8 06 41 00 BE 3F B8 13", "7e8 07 41 00 be 3f b8 13",
                         "7E0 00 41 00">>
    /\ norm_out.frames[1][1].payload = <<"41", "00", "BE", "3F", "B8", "13">>
    /\ norm_out.frames[1][2].payload = <<"07", "41", "00", "BE", "3F", "B8", "13">>
    /\ norm_out.frames[2][1].payload = <<"00", "41", "00">>

\* the lines group_by_ecu keeps, and the payloads of those of ECU e in order
KeptLine(ln) == ln # "" /\ ~IsNoise(ln) /\ NormalizeTokens(ln) # <<>>
RECURSIVE EcuPayload(_, _)
EcuPayload(lines, e) ==
    IF lines = <<>> THEN <<>>
    ELSE (IF KeptLine(Head(lines)) /\ NormalizeTokens(Head(lines))[1] = e
          THEN PayloadFromTokens(NormalizeTokens(Head(lines)), TRUE) ELSE <<>>)
         \o EcuPayload(Tail(lines), e)

\* C26: with headers on there is one bucket per distinct leading token of the
\* kept lines, and the merged payload of an ECU is the concatenation of the
\* payloads of its lines in arrival order, however the lines of the ECUs are
\* interleaved.
C26_OneBucketPerEcu ==
    (norm_out.done /\ norm_in.headers_on) =>
        /\ \A i, j \in 1..Len(norm_out.merged) :
              norm_out.merged[i].ecu = norm_out.merged[j].ecu => i = j
        /\ { norm_out.merged[k].ecu : k \in 1..Len(norm_out.merged) }
              = { NormalizeTokens(norm_in.lines[n])[1] :
                      n \in { x \in 1..Len(norm_in.lines) : KeptLine(norm_in.lines[x]) } }
        /\ \A k \in 1..Len(norm_out.merged) :
              norm_out.merged[k].payload = EcuPayload(norm_in.lines, norm_out.merged[k].ecu)

\* lines of 7E8 and 7E0 interleaved: two buckets, 7E8's frames in order
C26_Witness ==
    /\ norm_out.done /\ norm_in.headers_on
    /\ norm_in.lines = <<"7E8 06 41 00 BE 3F B8 13", "7E0 06 41 00 98 18 80 01",
                         "7e8 07 41 00 be 3f b8 13">>
    /\ Len(norm_out.merged) = 2
    /\ norm_out.merged[1] = [ecu |-> "7E8",
                             payload |-> <<"41", "00", "BE", "3F", "B8", "13",
                                           "07", "41", "00", "BE", "3F", "B8", "13">>]


-----------------------------------------------------------------------------
(* decode_dtc_bytes and parse_dtc_response on given strings                 *)
(* (src/obd/dtc/decode.py, src/obd/dtc/parse.py)                            *)

DecFirstChars == {"0","1","2","3","4","5","6","7","8","9","A","B","C","D","E","F",
                  "a","b","c","d","e","f"}

DecTails == {"133", "1a3", "FFF"}

\* strings that are not four hex digits
DecMalformed == {"", "013", "01333", "G133", "0G33", "01G3", "013G", " 133", "0 33"}

\* responses to a DTC request, with and without the mode's echo
DecResponses == {"4301330000", "43 01 33 00 00", "43013341", "0133", "0143", "01334301",
                 "47014300", "4A0133", "4a0133", "014A0133", "430143", "4301G3", ""}

DecInputs == [s : {c \o t : c \in DecFirstChars, t \in DecTails} \cup DecMalformed
                      \cup DecResponses,
              mode : {"03", "07", "0A"}]

DecInit == /\ dec_in \in DecInputs /\ dec_out = [done |-> FALSE]
           /\ NoElm /\ NoChan /\ NoScan /\ NoObd /\ NoNeg /\ NoUds /\ NoDtc /\ NoClr /\ NoPid
           /\ NoNorm /\ NoDecRest

\* decode_dtc_bytes(s)
DecDecode == /\ ~dec_out.done
             /\ dec_out' = [done |-> TRUE, op |-> "decode", code |-> DecodeDtcBytes(dec_in.s)]
             /\ UNCHANGED <<dec_in, elmVars, chanVars, scanVars, obdVars, negVars, udsVars,
                            dtcVars, clrVars, pidVars, normVars, decRest>>

\* parse_dtc_response(s, mode)
DecParse == /\ ~dec_out.done
            /\ dec_out' = [done |-> TRUE, op |-> "parse",
                           codes |-> ParseDtcResponse(dec_in.s, dec_in.mode)]
            /\ UNCHANGED <<dec_in, elmVars, chanVars, scanVars, obdVars, negVars, udsVars,
                           dtcVars, clrVars, pidVars, normVars, decRest>>

DecNext == DecDecode \/ DecParse

SpecDec == DecInit /\ [][DecNext]_vars

\* s consists of hex digits only
AllHex(s) == \A i \in 1..Len(s) : UpperCh(SubSeq(s, i, i)) \in
                {"0","1","2","3","4","5","6","7","8","9","A","B","C","D","E","F"}

\* the first two characters of the code by the value of the first nibble
DtcHead == <<"P0", "P1", "P2", "P3", "C0", "C1", "C2", "C3",
             "B0", "B1", "B2", "B3", "U0", "U1", "U2", "U3">>

\* C27: for an input of four hex digits decode_dtc_bytes returns the letter of
\* the top two bits of the first nibble (P, C, B, U), the digit of its low two
\* bits and the other three digits in upper case; distinct first nibbles give
\* distinct first two characters.
C27_DecodeMapping ==
    /\ \A a, b \in 1..16 : DtcHead[a] = DtcHead[b] => a = b
    /\ (dec_out.done /\ dec_out.op = "decode" /\ Len(dec_in.s) = 4 /\ AllHex(dec_in.s)) =>
          \E n \in 0..15 :
              /\ UpperCh(SubSeq(dec_in.s, 1, 1))
                    = <<"0","1","2","3","4","5","6","7","8","9","A","B","C","D","E","F">>[n + 1]
              /\ dec_out.code = DtcHead[n + 1] \o Upper(SubSeq(dec_in.s, 2, 4))

\* 8133 decodes to B0133
C27_Witness ==
    dec_out.done /\ dec_out.op = "decode" /\ dec_in.s = "8133" /\ dec_out.code = "B0133"

\* C28: decode_dtc_bytes returns a value beginning with INVALID for every
\* input that is not exactly four hex digits.
C28_InvalidRejected ==
    (dec_out.done /\ dec_out.op = "decode" /\ ~(Len(dec_in.s) = 4 /\ AllHex(dec_in.s))) =>
        (Len(dec_out.code) >= 7 /\ SubSeq(dec_out.code, 1, 7) = "INVALID")

\* the response in upper case without spaces, without the mode's echo when it
\* leads, cut into groups of four
EchoOf(mode) == CASE mode = "03" -> "43" [] mode = "07" -> "47" [] mode = "0A" -> "4A"
LeadingEchoRemoved(s, mode) ==
    LET resp == Upper(RemoveSpaces(s))
    IN  IF Len(resp) >= 2 /\ SubSeq(resp, 1, 2) = EchoOf(mode)
        THEN SubSeq(resp, 3, Len(resp)) ELSE resp

\* C29: parse_dtc_response removes the mode's echo only when it leads the
\* payload and decodes the groups of four characters that follow, skipping
\* 0000 and a short last group; a payload that does not start with the echo
\* is decoded with no character removed.
C29_LeadingEchoOnly ==
    (dec_out.done /\ dec_out.op = "parse") =>
        dec_out.codes = ParseChunks(LeadingEchoRemoved(dec_in.s, dec_in.mode), 1)


-----------------------------------------------------------------------------
(* The readiness monitors read_readiness makes of the status bytes A, B, C, *)
(* D of a 41 01 payload (src/obd/scanner.py, src/obd/obd2/readiness.py)     *)

\* bool(x & (1 << bit))
Bit(x, bit) == (x \div (2 ^ bit)) % 2 = 1

\* ReadinessStatus(name, supported, (not incomplete) if supported else False)
Monitor_RawBit(name, supported, incomplete) ==
    [monitor_name |-> name, available |-> supported, complete |-> ~incomplete]

Monitor(name, supported, incomplete) ==
    [monitor_name |-> name, available |-> supported,
     complete |-> IF supported THEN ~incomplete ELSE FALSE]

\* the MIL entry: always available, complete when bit 7 of A is clear
MilMonitor(A) ==
    [monitor_name |-> "MIL (Check Engine Light)", available |-> TRUE, complete |-> ~Bit(A, 7)]

ContinuousMonitors == <<<<"Misfire", 0>>, <<"Fuel System", 1>>, <<"Components", 2>>>>

\* OBDScanner.read_readiness from the four bytes on: the non-continuous and
\* the diesel monitors are always available
ScannerMonitors(A, B, C, D) ==
    LET non_continuous == <<<<"Catalyst", 0>>, <<"Heated Catalyst", 1>>,
                            <<"Evaporative System", 2>>, <<"Secondary Air", 3>>,
                            <<"A/C Refrigerant", 4>>, <<"Oxygen Sensor", 5>>,
                            <<"Oxygen Sensor Heater", 6>>, <<"EGR System", 7>>>>
        diesel == <<<<"NMHC Catalyst", 0>>, <<"NOx/SCR Aftertreatment", 1>>,
                    <<"Boost Pressure", 3>>, <<"Exhaust Gas Sensor", 5>>,
                    <<"PM Filter", 6>>, <<"EGR/VVT System", 7>>>>
    IN  <<MilMonitor(A)>> \o
        (IF ~Bit(B, 3)
         THEN [k \in 1..3 |-> Monitor(ContinuousMonitors[k][1],
                                      Bit(B, ContinuousMonitors[k][2]),
                                      Bit(C, ContinuousMonitors[k][2]))]
              \o [k \in 1..8 |-> [monitor_name |-> non_continuous[k][1], available |-> TRUE,
                                  complete |-> ~Bit(D, non_continuous[k][2])]]
         ELSE [k \in 1..6 |-> [monitor_name |-> diesel[k][1], available |-> TRUE,
                               complete |-> ~Bit(D, diesel[k][2])]])

\* ReadinessMixin.read_readiness from the four bytes on: each monitor has a
\* support bit in B or C
MixinMonitors(A, B, C, D) ==
    LET noncont == <<<<"Catalyst", B, 4, 0>>, <<"Heated Catalyst", B, 5, 1>>,
                     <<"Evaporative System", B, 6, 2>>, <<"Secondary Air", B, 7, 3>>,
                     <<"A/C Refrigerant", C, 3, 4>>, <<"Oxygen Sensor", C, 4, 5>>,
                     <<"Oxygen Sensor Heater", C, 5, 6>>, <<"EGR System", C, 6, 7>>>>
        diesel == <<<<"NMHC Catalyst", 0, 0>>, <<"NOx/SCR Aftertreatment", 1, 1>>,
                    <<"Boost Pressure", 3, 3>>, <<"Exhaust Gas Sensor", 5, 5>>,
                    <<"PM Filter", 6, 6>>, <<"EGR/VVT System", 7, 7>>>>
    IN  <<MilMonitor(A)>> \o
        (IF ~Bit(B, 3)
         THEN [k \in 1..3 |-> Monitor(ContinuousMonitors[k][1],
                                      Bit(B, ContinuousMonitors[k][2]),
                                      Bit(C, ContinuousMonitors[k][2]))]
              \o [k \in 1..8 |-> Monitor(noncont[k][1], Bit(noncont[k][2], noncont[k][3]),
                                         Bit(D, noncont[k][4]))]
         ELSE [k \in 1..6 |-> Monitor(diesel[k][1], Bit(C, diesel[k][2]),
                                      Bit(D, diesel[k][3]))])

\* status bytes: MIL on and off, spark and compression ignition, monitors
\* supported and not, tests complete and not
RdyBytesA == {0, 3, 128, 131}
RdyBytesB == {0, 3, 7, 8, 15, 101, 112, 255}
RdyBytesC == {0, 5, 7, 104, 235, 255}
RdyBytesD == {0, 85, 170, 255}

RdyInit == /\ rdy_in \in { <<a, b, c, d>> : a \in RdyBytesA, b \in RdyBytesB,
                                            c \in RdyBytesC, d \in RdyBytesD }
           /\ rdy_out = [done |-> FALSE]
           /\ NoElm /\ NoChan /\ NoScan /\ NoObd /\ NoNeg /\ NoUds /\ NoDtc /\ NoClr /\ NoPid
           /\ NoNorm /\ NoDec /\ NoRdyRest

RdyScanner == /\ ~rdy_out.done
              /\ rdy_out' = [done |-> TRUE, by |-> "OBDScanner",
                             monitors |-> ScannerMonitors(rdy_in[1], rdy_in[2],
                                                          rdy_in[3], rdy_in[4])]
              /\ UNCHANGED <<rdy_in, elmVars, chanVars, scanVars, obdVars, negVars, udsVars,
                             dtcVars, clrVars, pidVars, normVars, decVars, rdyRest>>

RdyMixin == /\ ~rdy_out.done
            /\ rdy_out' = [done |-> TRUE, by |-> "ReadinessMixin",
                           monitors |-> MixinMonitors(rdy_in[1], rdy_in[2],
                                                      rdy_in[3], rdy_in[4])]
            /\ UNCHANGED <<rdy_in, elmVars, chanVars, scanVars, obdVars, negVars, udsVars,
                           dtcVars, clrVars, pidVars, normVars, decVars, rdyRest>>

RdyNext == RdyScanner \/ RdyMixin

SpecRdy == RdyInit /\ [][RdyNext]_vars

\* C30: a monitor read_readiness returns with available = false has
\* complete = false whatever its raw bit, and the MIL entry is always
\* available, with complete = false exactly when bit 7 of A is set.
C30_UnavailableIncomplete ==
    rdy_out.done =>
        /\ \A k \in 1..Len(rdy_out.monitors) :
              ~rdy_out.monitors[k].available => ~rdy_out.monitors[k].complete
        /\ \E k \in 1..Len(rdy_out.monitors) :
              /\ rdy_out.monitors[k].monitor_name = "MIL (Check Engine Light)"
              /\ rdy_out.monitors[k].available
              /\ ~rdy_out.monitors[k].complete <=> rdy_in[1] >= 128
              /\ \A j \in 1..Len(rdy_out.monitors) :
                    rdy_out.monitors[j].monitor_name = "MIL (Check Engine Light)" => j = k

\* MIL on, Components not supported while its bit of C is clear
C30_Witness ==
    /\ rdy_out.done /\ rdy_in = <<128, 3, 0, 0>>
    /\ \E k \in 1..Len(rdy_out.monitors) :
          /\ rdy_out.monitors[k].monitor_name = "Components"
          /\ ~rdy_out.monitors[k].available /\ ~rdy_out.monitors[k].complete
    /\ ~rdy_out.monitors[1].complete


-----------------------------------------------------------------------------
(* Lines group_by_ecu must reject as a whole                                *)

\* the line has a character that is neither a hex digit nor a space
HasForeignChar(ln) ==
    \E i \in 1..Len(ln) :
        /\ SubSeq(ln, i, i) # " "
        /\ UpperCh(SubSeq(ln, i, i)) \notin
              {"0","1","2","3","4","5","6","7","8","9","A","B","C","D","E","F"}

\* the number of token lists in all buckets
RECURSIVE BucketSize(_)
BucketSize(grouped) ==
    IF grouped = <<>> THEN 0 ELSE Len(Head(grouped).msgs) + BucketSize(Tail(grouped))

\* C33: a line with a character other than hex digits and spaces, and a line
\* that starts with a noise prefix, contributes no token list to any bucket
\* of group_by_ecu: the buckets hold one token list per other non-blank line.
C33_ForeignLineRejected ==
    norm_out.done =>
        BucketSize(norm_out.grouped)
            = Cardinality({ n \in 1..Len(norm_in.lines) :
                              /\ ~HasForeignChar(norm_in.lines[n])
                              /\ ~IsNoise(norm_in.lines[n])
                              /\ NormalizeTokens(norm_in.lines[n]) # <<>> })


-----------------------------------------------------------------------------
(* The monitor set of read_readiness by ignition family                     *)

SparkNames == <<"Misfire", "Fuel System", "Components", "Catalyst", "Heated Catalyst",
                "Evaporative System", "Secondary Air", "A/C Refrigerant", "Oxygen Sensor",
                "Oxygen Sensor Heater", "EGR System">>

DieselNames == <<"NMHC Catalyst", "NOx/SCR Aftertreatment", "Boost Pressure",
                 "Exhaust Gas Sensor", "PM Filter", "EGR/VVT System">>

\* the support bit of the k-th non-continuous spark monitor: byte (2 = B,
\* 3 = C) and bit number
NonContSupport == <<<<2, 4>>, <<2, 5>>, <<2, 6>>, <<2, 7>>, <<3, 3>>, <<3, 4>>, <<3, 5>>, <<3, 6>>>>

\* C34: read_readiness returns the MIL entry and then the 3 continuous and 8
\* non-continuous spark monitors when bit 3 of B is 0, the MIL entry and the 6
\* diesel monitors when it is 1; a non-continuous spark monitor is available
\* exactly when its support bit is set and complete exactly when it is
\* available and its bit of D is 0.
C34_MonitorSet ==
    rdy_out.done =>
        LET names == [k \in 1..(Len(rdy_out.monitors) - 1) |->
                          rdy_out.monitors[k + 1].monitor_name]
            spark == (rdy_in[2] \div 8) % 2 = 0
        IN  /\ rdy_out.monitors[1].monitor_name = "MIL (Check Engine Light)"
            /\ names = IF spark THEN SparkNames ELSE DieselNames
            /\ spark =>
                  \A k \in 1..8 :
                      LET m  == rdy_out.monitors[4 + k]
                          sb == (rdy_in[NonContSupport[k][1]] \div (2 ^ NonContSupport[k][2])) % 2 = 1
                          db == (rdy_in[4] \div (2 ^ (k - 1))) % 2 = 1
                      IN  /\ m.available <=> sb
                          /\ m.complete <=> (sb /\ ~db)


-----------------------------------------------------------------------------
(* routine_control's status and the DID reported by read_did and write_did  *)

\* C35: routine_control sends 0x31 with subfunction, routine id high and low
\* byte and the payload, and its status is exactly the response bytes after
\* the four-byte echo 0x71, subfunction, routine id high, routine id low.
C35_RoutineStatus ==
    (uds_call.op = "routine_control" /\ uds_call.returned) =>
        /\ Len(uds_call.request) >= 4 /\ uds_call.request[1] = 49
        /\ uds_call.ret = SubSeq(uds_call.response, 5, Len(uds_call.response))

\* C39: the did read_did and write_did report is the DID of the request.
C39_ReportedDidIsRequested ==
    (uds_call.op \in {"read_did", "write_did"} /\ uds_call.returned) =>
        /\ Len(uds_call.request) >= 3
        /\ uds_call.did = uds_call.request[2] * 256 + uds_call.request[3]


-----------------------------------------------------------------------------
(* is_connected right after connect() returned True                         *)

\* C38: when connect() has returned True, the is_connected property read
\* next is True, also when an exchange of the protocol negotiation failed
\* with an I/O error before the canary query succeeded.
C38_ConnectedAfterConnect ==
    (call.op = "connect" /\ call.step = "done" /\ outcome = "ok") =>
        (connected /\ elm_is_connected /\ connection = "Open")


-----------------------------------------------------------------------------
(* The VIN text get_vehicle_info makes of the answer to 0902                *)
(* (src/obd/scanner.py:588-604)                                             *)

\* the characters chr(32) .. chr(95) and chr(97) .. chr(126); the grave accent
\* chr(96), which a string here cannot hold, is written <60>
PrintableLow  == " !\"#$%&'()*+,-./0123456789:;<=>?@ABCDEFGHIJKLMNOPQRSTUVWXYZ[\\]^_"
PrintableHigh == "abcdefghijklmnopqrstuvwxyz{|}~"

\* chr(b) for 32 <= b <= 126
Chr(b) == IF b < 96 THEN SubSeq(PrintableLow, b - 31, b - 31)
          ELSE IF b = 96 THEN "<60>"
          ELSE SubSeq(PrintableHigh, b - 96, b - 96)

\* the loop over vin_tokens: chr(b) of every token with 32 <= int(t, 16) <= 126
RECURSIVE AsciiText(_)
AsciiText(tokens) ==
    IF tokens = <<>> THEN ""
    ELSE LET b == HexInt(Head(tokens))
         IN  (IF 32 <= b /\ b <= 126 THEN Chr(b) ELSE "")
             \o AsciiText(Tail(tokens))

\* the VIN part of get_vehicle_info on the lines of the 0902 exchange
\* (headers_on is True): info["vin"] is set only when the text is not empty
VinInfo(lines) ==
    LET merged == MergePayloads(GroupByEcu(lines, TRUE, <<>>), TRUE)
        found  == FindObdResponsePayload(merged, <<"49", "02">>)
        tokens == IF Len(found.payload) > 3 THEN SubSeq(found.payload, 4, Len(found.payload))
                  ELSE <<>>
    IN  IF ~found.found THEN [done |-> TRUE, found |-> FALSE, ecu |-> "", vin |-> "", vin_raw |-> ""]
        ELSE [done |-> TRUE, found |-> TRUE, ecu |-> found.ecu, vin |-> AsciiText(tokens),
              vin_raw |-> Str(found.payload)]

\* answers to 0902: the three frames of a multi-frame answer, a single frame,
\* and lines without VIN data
VinLineMenu == {"7E8 10 14 49 02 01 31 47 31", "7E8 21 4A 43 35 34 34 34 52",
                "7E8 22 37 32 35 32 33 36 37", "7E8 06 49 02 01 57 30 4C",
                "NO DATA", "7E8 03 41 00 31"}

MaxVinLines == 3

VinInit == /\ vin_in \in UNION {[1..n -> VinLineMenu] : n \in 0..MaxVinLines}
           /\ vin_out = [done |-> FALSE]
           /\ NoElm /\ NoChan /\ NoScan /\ NoObd /\ NoNeg /\ NoUds /\ NoDtc /\ NoClr /\ NoPid
           /\ NoNorm /\ NoDec /\ NoRdy /\ NoVinRest

VinCall == /\ ~vin_out.done
           /\ vin_out' = VinInfo(vin_in)
           /\ UNCHANGED <<vin_in, elmVars, chanVars, scanVars, obdVars, negVars, udsVars,
                          dtcVars, clrVars, pidVars, normVars, decVars, rdyVars, vinRest>>

VinNext == VinCall

SpecVin == VinInit /\ [][VinNext]_vars

\* the data bytes of one frame: the tokens after the ECU id without the
\* ISO-TP header (10 LL of a first frame, 21..2F of a consecutive frame, the
\* length byte of a single frame)
FrameData(tokens) ==
    LET rest == Tail(tokens)
    IN  IF Len(rest) >= 2 /\ rest[1] = "10" THEN SubSeq(rest, 3, Len(rest))
        ELSE IF rest # <<>> /\ rest[1] \in {"21", "22", "23", "24", "25", "26", "27", "28",
                                            "29", "2A", "2B", "2C", "2D", "2E", "2F"}
        THEN Tail(rest)
        ELSE IF rest # <<>> /\ HexInt(rest[1]) = Len(rest) - 1 THEN Tail(rest)
        ELSE rest

\* the data bytes of the lines of ECU e, in arrival order
RECURSIVE EcuData(_, _)
EcuData(lines, e) ==
    IF lines = <<>> THEN <<>>
    ELSE (IF KeptLine(Head(lines)) /\ NormalizeTokens(Head(lines))[1] = e
          THEN FrameData(NormalizeTokens(Head(lines))) ELSE <<>>)
         \o EcuData(Tail(lines), e)

\* C36: the VIN text get_vehicle_info reports is the text of the data bytes
\* that follow 49 02 and the item count: no ISO-TP header byte of a first or
\* consecutive frame appears in it as a character.
C36_VinWithoutPci ==
    (vin_out.done /\ vin_out.found) =>
        LET data == EcuData(vin_in, vin_out.ecu)
        IN  \E i \in 1..Len(data) :
              /\ i + 1 <= Len(data) /\ data[i] = "49" /\ data[i + 1] = "02"
              /\ vin_out.vin = AsciiText(SubSeq(data, i + 3, Len(data)))


-----------------------------------------------------------------------------
(* The multi-port connect loops: OBDScanner.auto_connect (scanner.py:118-141) *)
(* and action_connect (src/app/actions/connection.py:18-54)                  *)

AcPortNames == {"ttyUSB0", "ttyUSB1", "rfcomm0"}

MaxPorts == 3

\* find_ports(): lists of distinct port names
AcPortLists == { ps \in UNION {[1..n -> AcPortNames] : n \in 0..MaxPorts} :
                   \A i, j \in 1..Len(ps) : ps[i] = ps[j] => i = j }

\* how one OBDScanner.connect() call on a closed scanner can end
\* (scanner.py:101-116 with ELM327.connect, elm327.py:58-84):
\*   serial_error  serial.Serial(...) raises: no connection object
\*   init_failed   initialize_elm is False: the port stays open
\*   no_vehicle    test_vehicle_connection() is False: the port stays open
\*   ok            returns True
\*   ok_io_error   returns True after an exchange of negotiate_protocol raised
\*                 OSError, which cleared ELM327._is_connected
ConnectOutcomes == {"serial_error", "init_failed", "no_vehicle", "ok", "ok_io_error"}

\* the scanner fields after connect() ended as o
AfterConnect(a, o) ==
    IF o = "serial_error"
    THEN [a EXCEPT !.is_conn = FALSE]
    ELSE LET opened == [a EXCEPT !.conn = "Open", !.open = @ + 1,
                                 !.max_open = IF a.open + 1 > @ THEN a.open + 1 ELSE @]
         IN  CASE o = "init_failed" -> [opened EXCEPT !.is_conn = FALSE]
               [] o = "no_vehicle"  -> [opened EXCEPT !.is_conn = TRUE, !.connected = FALSE]
               [] o = "ok"          -> [opened EXCEPT !.is_conn = TRUE, !.connected = TRUE]
               [] o = "ok_io_error" -> [opened EXCEPT !.is_conn = FALSE, !.connected = TRUE]

\* OBDScanner.disconnect() with ELM327.close()
AfterDisconnect(a) ==
    [a EXCEPT !.connected = FALSE, !.is_conn = FALSE, !.conn = "None",
              !.open = IF a.conn = "Open" THEN @ - 1 ELSE @, !.disconnects = @ + 1]

\* how get_vehicle_info() can end on the scanner a: NotConnectedError when
\* is_connected is False, else a return, ConnectionLostError or ScannerError
VehicleInfoOutcomes(a) ==
    IF a.connected /\ a.is_conn /\ a.conn = "Open"
    THEN {"ok", "ConnectionLostError", "ScannerError"}
    ELSE {"NotConnectedError"}

AcIdle(op, ports) ==
    [step |-> "idle", op |-> op, ports |-> ports, k |-> 0, tried |-> <<>>, results |-> <<>>,
     conn |-> "None", is_conn |-> FALSE, connected |-> FALSE, open |-> 0, max_open |-> 0,
     disconnects |-> 0, outcome |-> "none", ret |-> "None"]

AcInit == /\ ac \in { AcIdle(op, ps) : op \in {"auto_connect", "action_connect"},
                                       ps \in AcPortLists }
          /\ NoElm /\ NoChan /\ NoScan /\ NoObd /\ NoNeg /\ NoUds /\ NoDtc /\ NoClr /\ NoPid
          /\ NoNorm /\ NoDec /\ NoRdy /\ NoVin /\ NoAcRest

AcFrame == UNCHANGED <<elmVars, chanVars, scanVars, obdVars, negVars, udsVars, dtcVars,
                       clrVars, pidVars, normVars, decVars, rdyVars, vinVars, acRest>>

\* ports = ELM327.find_ports(); no port: auto_connect raises, action_connect returns
AcStart ==
    /\ ac.step = "idle"
    /\ ac' = IF ac.ports = <<>>
             THEN [ac EXCEPT !.step = "done",
                             !.outcome = IF ac.op = "auto_connect" THEN "ConnectionError"
                                         ELSE "returned"]
             ELSE [ac EXCEPT !.step = "loop", !.k = 1]
    /\ AcFrame

\* one pass of the for loop: elm.port = port; connect(); on an exception
\* disconnect() and go on with the next port
AcTry ==
    /\ ac.step = "loop" /\ ac.k <= Len(ac.ports)
    /\ \E o \in ConnectOutcomes :
          LET p == ac.ports[ac.k]
              t == [ac EXCEPT !.tried = Append(@, p),
                              !.results = Append(@, IF o \in {"ok", "ok_io_error"}
                                                    THEN "ok" ELSE "failed")]
              c == AfterConnect(t, o)
          IN  ac' = IF o \in {"ok", "ok_io_error"}
                    THEN IF ac.op = "auto_connect"
                         THEN [c EXCEPT !.step = "done", !.outcome = "returned", !.ret = p]
                         ELSE [c EXCEPT !.step = "info"]
                    ELSE [AfterDisconnect(c) EXCEPT !.k = @ + 1]
    /\ AcFrame

\* action_connect after connect() returned: get_vehicle_info(); a
\* ConnectionLostError is handled and the action returns, any other exception
\* reaches the handler of the loop: disconnect() and the next port
AcInfo ==
    /\ ac.step = "info"
    /\ \E g \in VehicleInfoOutcomes(ac) :
          ac' = CASE g = "ok" -> [ac EXCEPT !.step = "done", !.outcome = "returned",
                                            !.ret = ac.ports[ac.k]]
                  [] g = "ConnectionLostError" ->
                        [ac EXCEPT !.step = "done", !.outcome = "returned",
                                   !.ret = ac.ports[ac.k], !.connected = FALSE]
                  [] OTHER -> [AfterDisconnect(ac) EXCEPT !.step = "loop", !.k = @ + 1]
    /\ AcFrame

\* the loop is over: auto_connect raises ConnectionError, action_connect
\* prints and returns
AcExhausted ==
    /\ ac.step = "loop" /\ ac.k > Len(ac.ports)
    /\ ac' = [ac EXCEPT !.step = "done",
                        !.outcome = IF ac.op = "auto_connect" THEN "ConnectionError"
                                    ELSE "returned"]
    /\ AcFrame

AcNext == AcStart \/ AcTry \/ AcInfo \/ AcExhausted

SpecAc == AcInit /\ [][AcNext]_vars

\* C37: the ports are tried in the order found, none twice; the loop stops at
\* the first port on which connect() succeeded and returns it; disconnect()
\* follows every failed port, so at most one serial connection is open; when
\* every port failed auto_connect raises ConnectionError, and the scanner is
\* disconnected with no serial connection open.
C37_FirstWorkingPort ==
    /\ ac.step \in {"idle", "loop", "info", "done"}
    /\ ac.tried = SubSeq(ac.ports, 1, Len(ac.tried))
    /\ ac.max_open <= 1
    /\ ac.step = "done" =>
          /\ \A j \in 1..Len(ac.results) :
                ac.results[j] = "ok" =>
                    (j = Len(ac.results) /\ ac.outcome = "returned" /\ ac.ret = ac.tried[j])
          /\ (\A j \in 1..Len(ac.results) : ac.results[j] = "failed") =>
                /\ ac.op = "auto_connect" => ac.outcome = "ConnectionError"
                /\ ac.tried = ac.ports
                /\ ac.disconnects = Len(ac.ports)
                /\ ~ac.connected /\ ac.conn = "None" /\ ac.open = 0


-----------------------------------------------------------------------------
(* PaywallClient.sync_pending (src/paywall/client.py:118-157)               *)

\* pending consumptions: three well-formed ones and one without request id
PwItems == {[id |-> "r1", action |-> "scan", cost |-> 1],
            [id |-> "r2", action |-> "clear", cost |-> 2],
            [id |-> "r3", action |-> "scan", cost |-> 1],
            [id |-> "", action |-> "scan", cost |-> 1]}

MaxPending == 3

\* saved pending lists: items that differ from each other
PwLists == { ps \in UNION {[1..n -> PwItems] : n \in 0..MaxPending} :
               \A i, j \in 1..Len(ps) : ps[i] = ps[j] => i = j }

\* isinstance(action, str) and isinstance(cost, int) and request_id
WellFormed(item) == item.id # ""

\* how _request_json can end for one item: it returns, it raises PaywallError
\* with a status code (HTTP error), or without one (URLError, invalid JSON)
PwRequestOutcomes == {"ok", "http_error", "network_error"}

PwInit == /\ pw \in { [step |-> "idle", configured |-> c, identity_ok |-> i, saved |-> ps,
                       pending |-> <<>>, k |-> 0, remaining |-> <<>>, submitted |-> {},
                       failed |-> {}] :
                          c \in BOOLEAN, i \in BOOLEAN, ps \in PwLists }
          /\ NoElm /\ NoChan /\ NoScan /\ NoObd /\ NoNeg /\ NoUds /\ NoDtc /\ NoClr /\ NoPid
          /\ NoNorm /\ NoDec /\ NoRdy /\ NoVin /\ NoAc /\ NoMon /\ NoCc

PwFrame == UNCHANGED <<elmVars, chanVars, scanVars, obdVars, negVars, udsVars, dtcVars,
                       clrVars, pidVars, normVars, decVars, rdyVars, vinVars, acVars,
                       monVars, ccVars>>

\* lines 119-128: return when not configured, when nothing is pending or when
\* ensure_identity() raises PaywallError; else start the loop
PwStart ==
    /\ pw.step = "idle"
    /\ pw' = IF ~pw.configured \/ pw.saved = <<>> \/ ~pw.identity_ok
             THEN [pw EXCEPT !.step = "done", !.pending = pw.saved]
             ELSE [pw EXCEPT !.step = "loop", !.pending = pw.saved, !.k = 1]
    /\ PwFrame

\* one pass of the loop over pending (lines 129-156): an item that is not
\* well formed is skipped; a PaywallError keeps the item, and one without
\* status code leaves the loop
PwItem ==
    /\ pw.step = "loop" /\ pw.k <= Len(pw.pending)
    /\ LET item == pw.pending[pw.k]
       IN  IF ~WellFormed(item)
           THEN pw' = [pw EXCEPT !.k = @ + 1]
           ELSE \E o \in PwRequestOutcomes :
                  pw' = CASE o = "ok" ->
                               [pw EXCEPT !.k = @ + 1, !.submitted = @ \cup {item.id}]
                          [] o = "http_error" ->
                               [pw EXCEPT !.k = @ + 1, !.remaining = Append(@, item),
                                          !.failed = @ \cup {item.id}]
                          [] o = "network_error" ->
                               [pw EXCEPT !.step = "save", !.remaining = Append(@, item),
                                          !.failed = @ \cup {item.id}]
    /\ PwFrame

\* the loop ran to its end
PwLoopEnd ==
    /\ pw.step = "loop" /\ pw.k > Len(pw.pending)
    /\ pw' = [pw EXCEPT !.step = "save"]
    /\ PwFrame

\* save_pending_consumptions(remaining)
PwSave ==
    /\ pw.step = "save"
    /\ pw' = [pw EXCEPT !.step = "done", !.saved = pw.remaining]
    /\ PwFrame

PwNext == PwStart \/ PwItem \/ PwLoopEnd \/ PwSave

SpecPw == PwInit /\ [][PwNext]_vars

\* C40: after sync_pending returned, every well-formed pending item whose
\* submission did not succeed, attempted or not, is in the saved pending
\* list, and every item submitted successfully is not.
C40_NoPendingLost ==
    pw.step = "done" =>
        \A n \in 1..Len(pw.pending) :
            LET item  == pw.pending[n]
                saved == \E m \in 1..Len(pw.saved) : pw.saved[m] = item
            IN  WellFormed(item) => (saved <=> item.id \notin pw.submitted)


-----------------------------------------------------------------------------
(* action_live_monitor (src/app/actions/monitoring.py:13-39)                *)

\* passes of the monitoring loop that end normally before something is raised
MaxMonIters == 3

\* what a statement of the loop body can raise: the user's interrupt at any
\* of them, ConnectionLostError from read_live_data (every other exception of
\* read_pid is swallowed there, scanner.py:359-366), an error of print or of
\* logger.log_readings
RaisedAt(pc_) ==
    CASE pc_ = "read"  -> {"KeyboardInterrupt", "ConnectionLostError"}
      [] pc_ = "print" -> {"KeyboardInterrupt", "OSError"}
      [] pc_ = "log"   -> {"KeyboardInterrupt", "OSError"}
      [] pc_ = "sleep" -> {"KeyboardInterrupt"}

MonIdle(is_connected, save) ==
    [pc |-> "idle", is_connected |-> is_connected, save |-> save, started |-> 0,
     ended |-> 0, logged |-> 0, iters |-> 0, raised |-> "none", at |-> "none",
     exc |-> "none", outcome |-> "none"]

MonInit == /\ mon \in { MonIdle(c, s) : c \in BOOLEAN, s \in BOOLEAN }
           /\ NoElm /\ NoChan /\ NoScan /\ NoObd /\ NoNeg /\ NoUds /\ NoDtc /\ NoClr /\ NoPid
           /\ NoNorm /\ NoDec /\ NoRdy /\ NoVin /\ NoAc /\ NoMonRest

MonFrame == UNCHANGED <<elmVars, chanVars, scanVars, obdVars, negVars, udsVars, dtcVars,
                        clrVars, pidVars, normVars, decVars, rdyVars, vinVars, acVars,
                        monRest>>

\* lines 14-24: return when not connected; else the logger is made and its
\* session started when the user answered y
MonEnter ==
    /\ mon.pc = "idle"
    /\ mon' = IF ~mon.is_connected
              THEN [mon EXCEPT !.pc = "done", !.outcome = "returned"]
              ELSE [mon EXCEPT !.pc = "read", !.started = IF mon.save THEN 1 ELSE 0]
    /\ MonFrame

\* where the exception e raised by a statement of the try block goes:
\* KeyboardInterrupt to its handler, anything else to the finally block
MonRaise(e) ==
    [mon EXCEPT !.pc = IF e = "KeyboardInterrupt" THEN "except" ELSE "finally",
                !.raised = e, !.at = mon.pc, !.exc = e]

\* line 27: readings = state.scanner.read_live_data()
MonRead ==
    /\ mon.pc = "read"
    /\ \/ mon' = [mon EXCEPT !.pc = "print"]
       \/ \E e \in RaisedAt("read") : mon' = MonRaise(e)
    /\ MonFrame

\* lines 28-31: the readings are printed
MonPrint ==
    /\ mon.pc = "print"
    /\ \/ mon' = [mon EXCEPT !.pc = "log"]
       \/ \E e \in RaisedAt("print") : mon' = MonRaise(e)
    /\ MonFrame

\* lines 32-33: if logger: logger.log_readings(readings)
MonLog ==
    /\ mon.pc = "log"
    /\ \/ mon' = [mon EXCEPT !.pc = "sleep", !.logged = IF mon.save THEN @ + 1 ELSE @]
       \/ \E e \in RaisedAt("log") : mon' = MonRaise(e)
    /\ MonFrame

\* line 34: time.sleep(state.monitor_interval), then the next pass
MonSleep ==
    /\ mon.pc = "sleep"
    /\ \/ /\ mon.iters < MaxMonIters
          /\ mon' = [mon EXCEPT !.pc = "read", !.iters = @ + 1]
       \/ \E e \in RaisedAt("sleep") : mon' = MonRaise(e)
    /\ MonFrame

\* lines 35-36: except KeyboardInterrupt: the interrupt is handled
MonExcept ==
    /\ mon.pc = "except"
    /\ mon' = [mon EXCEPT !.pc = "finally", !.exc = "none"]
    /\ MonFrame

\* lines 37-39: finally: if logger: logger.end_session(); then the function
\* returns or the pending exception goes on to the caller
MonFinally_OnlyOnReturn ==
    /\ mon.pc = "finally"
    /\ mon' = [mon EXCEPT !.pc = "done",
                          !.ended = IF mon.save /\ mon.exc = "none" THEN @ + 1 ELSE @,
                          !.outcome = IF mon.exc = "none" THEN "returned" ELSE mon.exc]
    /\ MonFrame

MonFinally ==
    /\ mon.pc = "finally"
    /\ mon' = [mon EXCEPT !.pc = "done",
                          !.ended = IF mon.save THEN @ + 1 ELSE @,
                          !.outcome = IF mon.exc = "none" THEN "returned" ELSE mon.exc]
    /\ MonFrame

MonNext == MonEnter \/ MonRead \/ MonPrint \/ MonLog \/ MonSleep \/ MonExcept \/ MonFinally

SpecMon == MonInit /\ [][MonNext]_vars

\* C31: when action_live_monitor is over and a log session was started,
\* end_session was called exactly once, whether the loop ended by the user's
\* interrupt, by ConnectionLostError or by another error; end_session is
\* never called before the loop ended, and an interrupt is not passed on to
\* the caller.
C31_EndSessionOnce ==
    /\ mon.pc \notin {"none", "done"} => mon.ended = 0
    /\ mon.pc = "done" =>
          /\ mon.ended = mon.started
          /\ mon.started <= 1
          /\ mon.raised = "KeyboardInterrupt" => mon.outcome = "returned"
          /\ mon.raised \in {"ConnectionLostError", "OSError"} => mon.outcome = mon.raised

\* a session was started, the loop ran, ConnectionLostError ended it
C31_Witness ==
    /\ mon.pc = "done" /\ mon.started = 1 /\ mon.ended = 1 /\ mon.iters >= 1
    /\ mon.raised = "ConnectionLostError" /\ mon.outcome = "ConnectionLostError"


-----------------------------------------------------------------------------
(* Two callers of send_raw_lines on one ELM327 instance                     *)
(* (src/obd/elm/elm327.py:111-156).  A byte carries the caller whose        *)
(* command the adapter answered with it.  Time is not counted: a caller     *)
(* whose loop finds no byte may have waited long enough to leave it.        *)

Callers == {1, 2}

\* send_raw_lines calls each caller makes
MaxCcCalls == 1

\* what the adapter sends in answer to the command of caller i
CcAnswer(i) == <<[ch |-> "4", of |-> i], [ch |-> ">", of |-> i]>>

CcIdle == [pc |-> "idle", buf |-> <<>>, lines |-> <<>>, calls |-> 0, discarded |-> FALSE]

CcInit == /\ cc \in { [mode |-> m, inbuf |-> <<>>, wire |-> <<>>, t |-> <<CcIdle, CcIdle>>] :
                         m \in {"concurrent", "serialized"} }
          /\ NoElm /\ NoChan /\ NoScan /\ NoObd /\ NoNeg /\ NoUds /\ NoDtc /\ NoClr /\ NoPid
          /\ NoNorm /\ NoDec /\ NoRdy /\ NoVin /\ NoAc /\ NoMon /\ NoPw

CcFrame == UNCHANGED <<elmVars, chanVars, scanVars, obdVars, negVars, udsVars, dtcVars,
                       clrVars, pidVars, normVars, decVars, rdyVars, vinVars, acVars,
                       monVars, pwVars>>

Other(i) == 3 - i

\* lines 116-118: reset_input_buffer() drops what is unread, also bytes that
\* answer the command of the other caller while that caller is in its loop
CcReset(i) ==
    /\ cc.t[i].pc = "idle" /\ cc.t[i].calls < MaxCcCalls
    /\ cc.mode = "serialized" => cc.t[Other(i)].pc = "idle"
    /\ LET j    == Other(i)
           lost == cc.t[j].pc = "loop" /\ \E n \in 1..Len(cc.inbuf) : cc.inbuf[n].of = j
       IN  cc' = [cc EXCEPT !.inbuf = <<>>,
                            !.t[i].pc = "write", !.t[i].buf = <<>>, !.t[i].lines = <<>>,
                            !.t[j].discarded = @ \/ lost]
    /\ CcFrame

\* lines 125-126: write and flush; the adapter will answer the command
CcWrite(i) ==
    /\ cc.t[i].pc = "write"
    /\ cc' = [cc EXCEPT !.wire = @ \o CcAnswer(i), !.t[i].pc = "loop"]
    /\ CcFrame

\* lines 137-143: in_waiting is not 0: everything unread is taken, and a ">"
\* in buf ends the loop
CcRead(i) ==
    /\ cc.t[i].pc = "loop" /\ cc.inbuf # <<>>
    /\ LET b == cc.t[i].buf \o cc.inbuf
       IN  cc' = [cc EXCEPT !.inbuf = <<>>, !.t[i].buf = b,
                            !.t[i].pc = IF \E n \in 1..Len(b) : b[n].ch = ">"
                                        THEN "decode" ELSE "loop"]
    /\ CcFrame

\* lines 133-135, 144-146: nothing to read and the timeout or the silence
\* limit is reached
CcBreak(i) ==
    /\ cc.t[i].pc = "loop" /\ cc.inbuf = <<>>
    /\ cc' = [cc EXCEPT !.t[i].pc = "decode"]
    /\ CcFrame

\* lines 149-156: the lines are buf without its ">" bytes
NotPrompt(b) == b.ch # ">"

CcReturn(i) ==
    /\ cc.t[i].pc = "decode"
    /\ cc' = [cc EXCEPT !.t[i].pc = "idle", !.t[i].lines = SelectSeq(cc.t[i].buf, NotPrompt),
                        !.t[i].buf = <<>>, !.t[i].calls = @ + 1]
    /\ CcFrame

\* the next byte the adapter sent reaches the serial input buffer
CcDeliver ==
    /\ cc.mode # "none" /\ cc.wire # <<>>
    /\ cc' = [cc EXCEPT !.inbuf = Append(@, Head(cc.wire)), !.wire = Tail(@)]
    /\ CcFrame

CcNext == \/ \E i \in Callers : CcReset(i) \/ CcWrite(i) \/ CcRead(i) \/ CcBreak(i)
                                \/ CcReturn(i)
          \/ CcDeliver

SpecConc == CcInit /\ [][CcNext]_vars

\* the lines caller i got hold a byte that answers the other caller's command
Foreign(i) == \E n \in 1..Len(cc.t[i].lines) : cc.t[i].lines[n].of # i

\* C32: when the calls of the two callers are serialized, no caller's
\* returned lines hold a byte the adapter sent in answer to the other
\* caller's command, and no caller's pending answer is dropped by the other
\* caller's buffer reset.
C32_SerializedIsolated ==
    cc.mode = "serialized" =>
        \A i \in Callers : ~Foreign(i) /\ ~cc.t[i].discarded

====
